---- MODULE Spec2Model ----
(***************************************************************************)
(* A model of the HTML parsing pipeline: the node model, the tree builder  *)
(* (buildTree and its helpers), the error sort and the strict-mode         *)
(* boundary of the JustHTML constructor.                                   *)
(*                                                                         *)
(* Nodes live in an arena (the sequence `nodes`); a node reference is its  *)
(* index, NULL (0) is JavaScript's null/undefined.  Array positions kept   *)
(* in the operators are JavaScript's 0-based indices; At() converts.       *)
(* Strings whose characters matter (text and comment data) are sequences   *)
(* of one-character strings.                                               *)
(***************************************************************************)
EXTENDS Integers, Sequences, FiniteSets, TLC

\* ------------------------------------------------------------------------
\* Bounds of the model
\* ------------------------------------------------------------------------
MaxTokens == 3

\* ------------------------------------------------------------------------
\* Basic values
\* ------------------------------------------------------------------------
NULL == 0

NUL == "NUL"

FFFD == "FFFD"

\* attribute maps are sets of <<key, value>> pairs with distinct keys
NoAttrs == {}

Max2(a, b) == IF a >= b THEN a ELSE b

Min2(a, b) == IF a <= b THEN a ELSE b

\* Array.prototype.indexOf on a sequence, 0-based, -1 when absent
IndexOf(s, x) ==
  IF \E i \in 1..Len(s) : s[i] = x
    THEN (CHOOSE i \in 1..Len(s) : s[i] = x /\ \A j \in 1..(i - 1) : s[j] # x) - 1
    ELSE -1

\* stack[i] for a 0-based index; undefined (NULL) outside the array
At(s, i) == IF i >= 0 /\ i < Len(s) THEN s[i + 1] ELSE NULL

\* `arr.length = k`: truncates, or extends the array with holes
SetLength(s, k) ==
  IF k <= Len(s) THEN SubSeq(s, 1, k)
  ELSE s \o [i \in 1..(k - Len(s)) |-> NULL]

\* Array.prototype.filter
RECURSIVE FilterSeq(_, _)
FilterSeq(s, keep) ==
  IF s = <<>> THEN <<>>
  ELSE IF Head(s) \in keep THEN <<Head(s)>> \o FilterSeq(Tail(s), keep)
  ELSE FilterSeq(Tail(s), keep)

\* ------------------------------------------------------------------------
\* Tag classifications
\* ------------------------------------------------------------------------
VOID_ELEMENTS ==
  {"area", "base", "basefont", "bgsound", "br", "col", "embed", "frame", "hr",
   "img", "input", "keygen", "link", "meta", "param", "source", "track", "wbr"}

HEAD_TAGS == {"base", "link", "meta", "noscript", "script", "style", "template", "title"}

FORMATTING_TAGS ==
  {"a", "b", "big", "code", "em", "font", "i", "nobr", "s", "small", "strike",
   "strong", "tt", "u"}

FOREIGN_BREAKOUT_TAGS ==
  {"b", "big", "blockquote", "body", "br", "center", "code", "dd", "div", "dl",
   "dt", "em", "embed", "h1", "h2", "h3", "h4", "h5", "h6", "head", "hr", "i",
   "img", "li", "listing", "menu", "meta", "nobr", "ol", "p", "pre", "ruby", "s",
   "small", "span", "strong", "strike", "sub", "sup", "table", "tt", "u", "ul",
   "var"}

A_REPARENT_BLOCKS == {"div", "address"}

CLOSE_P_ON_START ==
  {"address", "article", "aside", "blockquote", "center", "details", "dialog",
   "dir", "div", "dl", "fieldset", "figcaption", "figure", "footer", "form",
   "hgroup", "h1", "h2", "h3", "h4", "h5", "h6", "header", "hr", "listing",
   "main", "menu", "nav", "ol", "p", "pre", "section", "search", "summary", "ul"}

TABLE_END_TAGS ==
  {"table", "tbody", "thead", "tfoot", "tr", "td", "th", "caption", "colgroup"}

\* ------------------------------------------------------------------------
\* Strings
\* ------------------------------------------------------------------------
\* String.prototype.toLowerCase on the tag names the model feeds in
ToLowerCase(name) ==
  CASE name = "DIV" -> "div"
    [] name = "Svg" -> "svg"
    [] OTHER -> name

IsLowerCase(name) == name \notin {"DIV", "Svg"}

\* the regular expression class \s and its complement \S
IsSpace(ch) == ch \in {" ", "\n", "\t", "\r", "\f"}

HasNonSpace(d) == \E i \in 1..Len(d) : ~IsSpace(d[i])

StartsWith(d, ch) == Len(d) > 0 /\ d[1] = ch

\* String.prototype.slice(k)
Slice(d, k) == IF k >= Len(d) THEN <<>> ELSE SubSeq(d, k + 1, Len(d))

\* replaceAll(from, to) for a single character; to = "" deletes
RECURSIVE ReplaceAll(_, _, _)
ReplaceAll(d, from, to) ==
  IF d = <<>> THEN <<>>
  ELSE (IF Head(d) = from THEN (IF to = "" THEN <<>> ELSE <<to>>) ELSE <<Head(d)>>)
       \o ReplaceAll(Tail(d), from, to)

\* .replace(/\r\n/g, "\n").replace(/\r/g, "\n")
RECURSIVE NormalizeNewlines(_)
NormalizeNewlines(d) ==
  IF d = <<>> THEN <<>>
  ELSE IF Head(d) = "\r" /\ Len(d) > 1 /\ d[2] = "\n"
    THEN <<"\n">> \o NormalizeNewlines(Slice(d, 2))
  ELSE IF Head(d) = "\r" THEN <<"\n">> \o NormalizeNewlines(Tail(d))
  ELSE <<Head(d)>> \o NormalizeNewlines(Tail(d))

\* length of the match of /^\s*/
RECURSIVE LeadingSpaceLen(_)
LeadingSpaceLen(d) ==
  IF d # <<>> /\ IsSpace(Head(d)) THEN 1 + LeadingSpaceLen(Tail(d)) ELSE 0

CDataOpen == <<"[", "C", "D", "A", "T", "A", "[">>

CDataClose == <<"]", "]">>

\* token.data.match(/^\[CDATA\[([\s\S]*)\]\]$/)
IsCData(d) ==
  /\ Len(d) >= Len(CDataOpen) + Len(CDataClose)
  /\ SubSeq(d, 1, Len(CDataOpen)) = CDataOpen
  /\ SubSeq(d, Len(d) - Len(CDataClose) + 1, Len(d)) = CDataClose

\* the capture group of the CDATA match
CDataPayload(d) == SubSeq(d, Len(CDataOpen) + 1, Len(d) - Len(CDataClose))

\* ------------------------------------------------------------------------
\* Node model
\* ------------------------------------------------------------------------
NoNamespace == "null"

\* what optional chaining (node?.name) reads through a null reference
NullNode ==
  [name |-> "undefined", namespace |-> NoNamespace, parent |-> NULL,
   children |-> <<>>, data |-> <<>>, attrs |-> NoAttrs, templateContent |-> NULL,
   located |-> FALSE]

\* Node constructor
Node(name, attrs, data, namespace) ==
  [name |-> name, namespace |-> namespace, parent |-> NULL, children |-> <<>>,
   data |-> data, attrs |-> attrs, templateContent |-> NULL, located |-> FALSE]

Document == Node("#document", NoAttrs, <<>>, NoNamespace)

DocumentFragment == Node("#document-fragment", NoAttrs, <<>>, NoNamespace)

\* Element that keeps the case of the name
ElementKeepsCase(name, attrs, namespace) == Node(name, attrs, <<>>, namespace)

Element(name, attrs, namespace) == Node(ToLowerCase(name), attrs, <<>>, namespace)

Text(data) == Node("#text", NoAttrs, data, NoNamespace)

Comment(data) == Node("#comment", NoAttrs, data, NoNamespace)

Doctype(name) == Node("!doctype", NoAttrs, <<name>>, NoNamespace)

\* the node behind a reference; NullNode behind null
N(b, id) == IF id = NULL THEN NullNode ELSE b.nodes[id]

Name(b, id) == N(b, id).name

Ns(b, id) == N(b, id).namespace

Children(b, id) == N(b, id).children

Parent(b, id) == N(b, id).parent

\* node.namespace is set and is not "html"
IsForeign(b, id) == Ns(b, id) # NoNamespace /\ Ns(b, id) # "html"

\* node?.namespace || "html"
NsOrHtml(b, id) == IF Ns(b, id) = NoNamespace THEN "html" ELSE Ns(b, id)

Throw(b) == [b EXCEPT !.threw = TRUE]

\* `new X(...)`: the new node is the last one of the arena
Alloc(b, rec) == [b EXCEPT !.nodes = Append(@, rec)]

LastId(b) == Len(b.nodes)

\* maybeSetLocation(node, token.pos, html, trackNodeLocations) on the node
\* made last: located stands for originOffset, originLine and originCol,
\* which are null until they are set together; token.pos is never null
maybeSetLocation(b) ==
  [b EXCEPT !.nodes[LastId(b)].located = @ \/ b.trackNodeLocations]

\* Node.appendChild
AppendChild(b, p, c) ==
  IF b.threw THEN b
  ELSE IF p = NULL \/ c = NULL THEN Throw(b)
  ELSE [b EXCEPT !.nodes = [@ EXCEPT ![p].children = Append(@, c), ![c].parent = p]]

RemoveAt(s, i) == SubSeq(s, 1, i) \o SubSeq(s, i + 2, Len(s))

InsertAt(s, i, x) == SubSeq(s, 1, i) \o <<x>> \o SubSeq(s, i + 1, Len(s))

\* RemoveChild that clears the parent and leaves the children list alone
RemoveChildKeepsEntry(b, p, c) ==
  IF b.threw THEN b
  ELSE IF p = NULL THEN Throw(b)
  ELSE IF IndexOf(b.nodes[p].children, c) >= 0
    THEN [b EXCEPT !.nodes = [@ EXCEPT ![c].parent = NULL]]
    ELSE b

\* Node.removeChild
RemoveChild(b, p, c) ==
  IF b.threw THEN b
  ELSE IF p = NULL THEN Throw(b)
  ELSE LET idx == IndexOf(b.nodes[p].children, c) IN
    IF idx >= 0
      THEN [b EXCEPT !.nodes = [@ EXCEPT ![p].children = RemoveAt(@, idx), ![c].parent = NULL]]
      ELSE b

\* Node.insertBefore
InsertBefore(b, p, c, referenceNode) ==
  IF b.threw THEN b
  ELSE IF p = NULL THEN Throw(b)
  ELSE IF referenceNode = NULL THEN AppendChild(b, p, c)
  ELSE LET idx == IndexOf(b.nodes[p].children, referenceNode) IN
    IF idx < 0 \/ c = NULL THEN Throw(b)
    ELSE [b EXCEPT !.nodes = [@ EXCEPT ![p].children = InsertAt(@, idx, c), ![c].parent = p]]

\* ------------------------------------------------------------------------
\* Tree builder helpers
\* ------------------------------------------------------------------------
\* createElement: a Template carries a DocumentFragment as templateContent
\* when its namespace is html.  The new element is LastId of the result.
createElement(b, name, attrs, namespace) ==
  IF name = "template" /\ namespace = "html"
    THEN LET b1 == Alloc(b, DocumentFragment) IN
         Alloc(b1, [Element(name, attrs, namespace) EXCEPT !.templateContent = LastId(b1)])
    ELSE Alloc(b, Element(name, attrs, namespace))

Top(b) == At(b.stack, Len(b.stack) - 1)

Push(b, id) == [b EXCEPT !.stack = Append(@, id)]

Pop(b) == [b EXCEPT !.stack = SubSeq(@, 1, Len(@) - 1)]

Truncate(b, k) == [b EXCEPT !.stack = SetLength(@, k)]

\* currentNode(stack, fallbackRoot, bodyElement)
currentNode(b, fallbackRoot, bodyElement) ==
  IF Len(b.stack) > 1 THEN
    (IF Top(b) # NULL /\ Name(b, Top(b)) = "html" /\ bodyElement # NULL
       THEN bodyElement ELSE Top(b))
  ELSE IF bodyElement # NULL THEN bodyElement
  ELSE IF fallbackRoot # NULL THEN fallbackRoot
  ELSE At(b.stack, 0)

\* the largest index in from..(length-1) whose entry satisfies the test
NearestFrom(b, from, Test(_)) ==
  LET hits == {i \in from..(Len(b.stack) - 1) : At(b.stack, i) # NULL /\ Test(At(b.stack, i))} IN
  IF hits = {} THEN -1 ELSE CHOOSE i \in hits : \A j \in hits : j <= i

findOpenElement(b, name) ==
  LET T(id) == Name(b, id) = name IN NearestFrom(b, 1, T)

findOpenElementInNamespace(b, name, namespace) ==
  LET T(id) == Name(b, id) = name /\ NsOrHtml(b, id) = namespace IN NearestFrom(b, 1, T)

findNearestIndex(b, name) ==
  LET T(id) == Name(b, id) = name IN NearestFrom(b, 0, T)

\* ensureDocumentOnStack that leaves the stack as it is
ensureDocumentOnStackSkipped(b) == b

\* ensureDocumentOnStack
ensureDocumentOnStack(b) ==
  IF b.documentElement = NULL THEN b
  ELSE IF Len(b.stack) < 2 THEN Push(b, b.documentElement)
  ELSE [b EXCEPT !.stack[2] = b.documentElement]

hasForeignContentAbove(b, index) ==
  \E i \in (index + 1)..(Len(b.stack) - 1) : IsForeign(b, At(b.stack, i))

isHeadNoscriptContext(b) ==
  /\ Len(b.stack) > 0
  /\ Name(b, Top(b)) = "noscript"
  /\ \E i \in 0..(Len(b.stack) - 2) :
       /\ Name(b, At(b.stack, i)) = "head"
       /\ \A j \in (i + 1)..(Len(b.stack) - 2) : Name(b, At(b.stack, j)) # "html"

RECURSIVE closeHeadNoscriptContext(_)
closeHeadNoscriptContext(b) ==
  IF Len(b.stack) > 1 /\ Name(b, Top(b)) \in {"noscript", "head"}
    THEN closeHeadNoscriptContext(Pop(b))
    ELSE b

\* the loop `while (stack.length > 1 && top.namespace !== "html") stack.pop()`
RECURSIVE PopNonHtml(_)
PopNonHtml(b) ==
  IF Len(b.stack) > 1 /\ Ns(b, Top(b)) # "html" THEN PopNonHtml(Pop(b)) ELSE b

\* ------------------------------------------------------------------------
\* Attribute maps
\* ------------------------------------------------------------------------
HasAttr(attrs, key) == \E kv \in attrs : kv[1] = key

AttrValue(attrs, key) ==
  IF HasAttr(attrs, key) THEN (CHOOSE kv \in attrs : kv[1] = key)[2] ELSE ""

\* Object.assign(target, source)
ObjectAssign(target, source) ==
  {kv \in target : ~HasAttr(source, kv[1])} \cup source

\* the first-write-wins merge of the <body> branch
AssignMissing(target, source) ==
  target \cup {kv \in source : ~HasAttr(target, kv[1])}

\* String(attrs.type || "").toLowerCase() on the values the model feeds in
TypeLower(attrs) ==
  LET v == AttrValue(attrs, "type") IN IF v = "HIDDEN" THEN "hidden" ELSE v

\* ------------------------------------------------------------------------
\* Scaffolding and parent selection
\* ------------------------------------------------------------------------
\* if (!documentElement) { ... } (lines 660-663)
ScaffoldHtml(b, root) ==
  IF b.documentElement # NULL THEN b
  ELSE LET a == Alloc(b, Element("html", NoAttrs, "html")) IN
       [AppendChild(a, root, LastId(a)) EXCEPT !.documentElement = LastId(a)]

\* if (!headElement) { ... } (lines 664-667)
ScaffoldHead(b) ==
  IF b.headElement # NULL THEN b
  ELSE LET a == Alloc(b, Element("head", NoAttrs, "html")) IN
       [AppendChild(a, b.documentElement, LastId(a)) EXCEPT !.headElement = LastId(a)]

\* hasFrameset and if (!bodyElement && !hasFrameset) { ... } (lines 668-672)
ScaffoldBody(b) ==
  LET hasFrameset == \E i \in 1..Len(Children(b, b.documentElement)) :
                        Name(b, Children(b, b.documentElement)[i]) = "frameset"
  IN IF b.bodyElement = NULL /\ ~hasFrameset
       THEN LET a == Alloc(b, Element("body", NoAttrs, "html")) IN
            [AppendChild(a, b.documentElement, LastId(a)) EXCEPT !.bodyElement = LastId(a)]
       ELSE b

\* ensureScaffold that makes no head
ensureScaffoldWithoutHead(b, root) == ScaffoldBody(ScaffoldHtml(b, root))

ensureScaffold(b, root) == ScaffoldBody(ScaffoldHead(ScaffoldHtml(b, root)))

\* chooseParent pops the stack in one branch: ChooseParentStack is the
\* builder after the call, ChooseParentResult the parent it returns
ChooseParentCurrent(b) ==
  IF Top(b) # NULL THEN Top(b) ELSE currentNode(b, NULL, b.bodyElement)

ChooseParentStack(b, tagName) ==
  LET current == ChooseParentCurrent(b) IN
  IF current = NULL THEN Throw(b)
  ELSE IF Name(b, current) # "html" /\ Name(b, current) = "head" /\ tagName \notin HEAD_TAGS
    THEN Pop(b)
  ELSE b

ChooseParentResult(b, tagName) ==
  LET current == ChooseParentCurrent(b) IN
  IF current = NULL THEN NULL
  ELSE IF Name(b, current) = "html" THEN
    (IF tagName \in HEAD_TAGS /\ b.bodyElement # NULL /\ Len(Children(b, b.bodyElement)) = 0
       THEN (IF b.headElement # NULL THEN b.headElement ELSE current)
       ELSE (IF b.bodyElement # NULL THEN b.bodyElement ELSE current))
  ELSE IF Name(b, current) = "head" /\ tagName \notin HEAD_TAGS
    THEN (IF b.bodyElement # NULL THEN b.bodyElement ELSE current)
  ELSE current

alignStackForParent(b, parent) ==
  IF parent = NULL THEN b
  ELSE IF parent = b.bodyElement
    THEN Push(Truncate(ensureDocumentOnStack(b), 2), b.bodyElement)
  ELSE IF parent = b.headElement
    THEN Push(Truncate(ensureDocumentOnStack(b), 2), b.headElement)
  ELSE b

insertAfter(b, parent, node, referenceNode) ==
  IF b.threw THEN b
  ELSE IF parent = NULL THEN Throw(b)
  ELSE LET idx == IndexOf(Children(b, parent), referenceNode) IN
    IF idx < 0 \/ idx + 1 >= Len(Children(b, parent))
      THEN AppendChild(b, parent, node)
      ELSE InsertBefore(b, parent, node, Children(b, parent)[idx + 2])

\* shouldFosterParentText, were only the table itself tested
shouldFosterParentTextTableOnly(b) ==
  Top(b) # NULL /\ Name(b, Top(b)) = "table"

\* ------------------------------------------------------------------------
\* Foster parenting and table contexts
\* ------------------------------------------------------------------------
shouldFosterParentText(b) ==
  Top(b) # NULL /\ Name(b, Top(b)) \in {"table", "tbody", "thead", "tfoot", "tr"}

shouldFosterParentElement(b, tagName) ==
  /\ Top(b) # NULL
  /\ Name(b, Top(b)) = "table"
  /\ tagName \notin {"caption", "colgroup", "tbody", "tfoot", "thead", "tr", "td", "th"}

\* fosterParentInsert once the parent of the table is known (lines 914-924)
FosterUnder(b, node, table, parent) ==
  IF parent = NULL THEN b
  ELSE
    LET tablePos == IndexOf(Children(b, parent), table)
        prevSibling == IF tablePos > 0 THEN Children(b, parent)[tablePos] ELSE NULL
    IN IF Name(b, node) = "#text" /\ prevSibling # NULL /\ Name(b, prevSibling) = "a"
         THEN LET a == createElement(b, "a", N(b, prevSibling).attrs, "html") IN
              InsertBefore(AppendChild(a, LastId(a), node), parent, LastId(a), table)
         ELSE InsertBefore(b, parent, node, table)

\* FosterBefore that takes the body for the parent of the table
FosterBeforeInBody(b, node, table) == FosterUnder(b, node, table, b.bodyElement)

\* const parent = table.parent || bodyElement (lines 908-912)
FosterBefore(b, node, table) ==
  FosterUnder(b, node, table, IF Parent(b, table) # NULL THEN Parent(b, table) ELSE b.bodyElement)

fosterParentInsert(b, node) ==
  LET tableIndex == findNearestIndex(b, "table") IN
  IF tableIndex < 0
    THEN (IF b.bodyElement # NULL THEN AppendChild(b, b.bodyElement, node) ELSE b)
    ELSE FosterBefore(b, node, At(b.stack, tableIndex))

findFosterParent(b) ==
  LET tableIndex == findNearestIndex(b, "table") IN
  IF tableIndex > 0 THEN
    LET table == At(b.stack, tableIndex) IN
    IF Parent(b, table) # NULL THEN Parent(b, table)
    ELSE IF b.bodyElement # NULL THEN b.bodyElement ELSE At(b.stack, 0)
  ELSE IF b.bodyElement # NULL THEN b.bodyElement ELSE At(b.stack, 0)

\* the last child of the table whose name is in `names`, or NULL
LastChildNamed(b, table, names) ==
  LET ch == Children(b, table)
      hits == {i \in 1..Len(ch) : Name(b, ch[i]) \in names}
  IN IF hits = {} THEN NULL ELSE ch[CHOOSE i \in hits : \A j \in hits : j <= i]

\* the row group of the table, made and appended if the table has none
\* (lines 937-948, 970-980); afterwards it is the last child so named
TableBody(b, table, names) ==
  IF LastChildNamed(b, table, names) # NULL THEN b
  ELSE LET a == Alloc(b, Element("tbody", NoAttrs, "html")) IN
       AppendChild(a, table, LastId(a))

\* a new tr under the tbody, and the stack cut back to the table with the
\* tbody and the tr pushed (lines 949-953)
TableRow(b, table, tableIndex) ==
  LET tbody == LastChildNamed(b, table, {"tbody"})
      a == Alloc(b, Element("tr", NoAttrs, "html"))
  IN Push(Push(Truncate(AppendChild(a, tbody, LastId(a)), tableIndex + 1), tbody), LastId(a))

\* if (bodyElement && table.parent == null) bodyElement.appendChild(table)
AdoptTable(b, table) ==
  IF b.bodyElement # NULL /\ Parent(b, table) = NULL
    THEN AppendChild(b, b.bodyElement, table)
    ELSE b

ensureTableCellContext(b) ==
  LET trIndex == findNearestIndex(b, "tr")
      tableIndex == findNearestIndex(b, "table")
      table == At(b.stack, tableIndex)
  IN IF trIndex >= 0 THEN Truncate(b, trIndex + 1)
     ELSE IF tableIndex < 0 THEN b
     ELSE AdoptTable(TableRow(TableBody(b, table, {"tbody"}), table, tableIndex), table)

\* the stack cut back to the table with the row group pushed (lines 980-981)
TableGroup(b, table, tableIndex) ==
  Push(Truncate(b, tableIndex + 1), LastChildNamed(b, table, {"tbody", "thead", "tfoot"}))

ensureTableRowContext(b) ==
  LET tableIndex == findNearestIndex(b, "table")
      table == At(b.stack, tableIndex)
  IN IF tableIndex < 0 THEN b
     ELSE IF Top(b) # NULL /\ Name(b, Top(b)) \in {"tbody", "thead", "tfoot"} THEN b
     ELSE AdoptTable(TableGroup(TableBody(b, table, {"tbody", "thead", "tfoot"}), table,
                                tableIndex), table)

applySelectStartTagHeuristics(b, tagName) ==
  LET selectIndex == findNearestIndex(b, "select")
      optionIndex == findNearestIndex(b, "option")
      optgroupIndex == findNearestIndex(b, "optgroup")
  IN IF selectIndex < 0 THEN b
     ELSE IF tagName = "option"
       THEN (IF optionIndex > selectIndex THEN Truncate(b, optionIndex) ELSE b)
     ELSE IF tagName \in {"optgroup", "hr"}
       THEN LET b1 == IF optionIndex > selectIndex THEN Truncate(b, optionIndex) ELSE b IN
            IF optgroupIndex > selectIndex
              THEN Truncate(b1, Min2(Len(b1.stack), optgroupIndex))
              ELSE b1
     ELSE IF tagName \in {"input", "keygen", "textarea", "select"}
       THEN Truncate(b, selectIndex)
     ELSE b

\* ------------------------------------------------------------------------
\* Namespaces
\* ------------------------------------------------------------------------
FontBreaksOut(attrs) ==
  HasAttr(attrs, "color") \/ HasAttr(attrs, "face") \/ HasAttr(attrs, "size")

inferNamespace(b, tagName, parent, defaultNamespace, attrs) ==
  IF tagName = "svg" THEN "svg"
  ELSE IF tagName \in {"math", "mglyph", "malignmark"} THEN "math"
  ELSE IF defaultNamespace # "html"
          /\ (tagName \in FOREIGN_BREAKOUT_TAGS \/ (tagName = "font" /\ FontBreaksOut(attrs)))
    THEN "html"
  ELSE IF parent # NULL /\ IsForeign(b, parent) THEN
    (IF tagName \in FOREIGN_BREAKOUT_TAGS THEN "html"
     ELSE IF tagName = "font" /\ FontBreaksOut(attrs) THEN "html"
     ELSE IF Name(b, parent) = "foreignobject" THEN "html"
     ELSE IF Ns(b, parent) = "svg" /\ Name(b, parent) \in {"desc", "title"} THEN "html"
     ELSE Ns(b, parent))
  ELSE defaultNamespace

fragmentDefaultNamespace(namespace, contextTag) ==
  IF namespace = "svg" THEN
    (IF contextTag \in {"foreignobject", "desc", "title"} THEN "html" ELSE "svg")
  ELSE IF namespace = "math" THEN
    (IF contextTag \in {"mi", "mo", "mn", "ms", "mtext"} THEN "html" ELSE "math")
  ELSE "html"

isInlineLikeNode(b, node) ==
  node # NULL /\ (Name(b, node) \in {"#text", "#comment", "#document", "#document-fragment"}
                  \/ Name(b, node) \in FORMATTING_TAGS)

\* ------------------------------------------------------------------------
\* Formatting recoveries
\* ------------------------------------------------------------------------
\* stack.slice(from)
StackFrom(b, from) == SubSeq(b.stack, from + 1, Len(b.stack))

\* ids of a sequence whose node name is (is not) a formatting tag, in order
RECURSIVE FormattingOnly(_, _)
FormattingOnly(b, s) ==
  IF s = <<>> THEN <<>>
  ELSE IF Name(b, Head(s)) \in FORMATTING_TAGS THEN <<Head(s)>> \o FormattingOnly(b, Tail(s))
  ELSE FormattingOnly(b, Tail(s))

RECURSIVE NonFormattingOnly(_, _)
NonFormattingOnly(b, s) ==
  IF s = <<>> THEN <<>>
  ELSE IF Name(b, Head(s)) \notin FORMATTING_TAGS THEN <<Head(s)>> \o NonFormattingOnly(b, Tail(s))
  ELSE NonFormattingOnly(b, Tail(s))

AllFormatting(b, s) == \A i \in 1..Len(s) : Name(b, s[i]) \in FORMATTING_TAGS

PushAll(b, s) == [b EXCEPT !.stack = @ \o s]

\* Clone each source in order: the first clone follows `after` under `parent`,
\* every later clone goes into the previous one.  Returns the builder and
\* the clones, collected in `acc`.
RECURSIVE CloneChain(_, _, _, _, _)
CloneInsert(a, sources, parent, after, acc) ==
  CloneChain(insertAfter(a, parent, LastId(a), after), Tail(sources),
             LastId(a), LastId(a), Append(acc, LastId(a)))

CloneChain(b, sources, parent, after, acc) ==
  IF sources = <<>> THEN [b |-> b, clones |-> acc]
  ELSE CloneInsert(createElement(b, Name(b, Head(sources)), N(b, Head(sources)).attrs, "html"),
                   sources, parent, after, acc)

\* for (const clone of clones) stack.push(clone)
PushClones(r) == PushAll(r.b, r.clones)

\* the split recovery's loop: first clone by insertAfter, the others by appendChild
RECURSIVE SplitChain(_, _, _, _, _)
SplitInsert(a, sources, parent, formatting, acc) ==
  SplitChain(IF acc = <<>> THEN insertAfter(a, parent, LastId(a), formatting)
             ELSE AppendChild(a, acc[Len(acc)], LastId(a)),
             Tail(sources), parent, formatting, Append(acc, LastId(a)))

SplitChain(b, sources, parent, formatting, acc) ==
  IF sources = <<>> THEN [b |-> b, clones |-> acc]
  ELSE SplitInsert(createElement(b, Name(b, Head(sources)), N(b, Head(sources)).attrs, "html"),
                   sources, parent, formatting, acc)

CanFormattingSplitRecovery(b, formattingIndex) ==
  /\ formattingIndex >= 1
  /\ formattingIndex < Len(b.stack) - 1
  /\ AllFormatting(b, StackFrom(b, formattingIndex + 1))
  /\ Parent(b, At(b.stack, formattingIndex)) # NULL

\* stack.length = formattingIndex; for (const node of reopened) stack.push(node)
SplitStack(r, formattingIndex) == PushAll(Truncate(r.b, formattingIndex), r.clones)

tryFormattingSplitRecovery(b, formattingIndex) ==
  SplitStack(SplitChain(b, StackFrom(b, formattingIndex + 1),
                        Parent(b, At(b.stack, formattingIndex)),
                        At(b.stack, formattingIndex), <<>>),
             formattingIndex)

\* the leading run of inline-like nodes of a child list, skipping `skip`
RECURSIVE LeadingInline(_, _, _)
LeadingInline(b, ch, skip) ==
  IF ch = <<>> THEN <<>>
  ELSE IF Head(ch) = skip THEN LeadingInline(b, Tail(ch), skip)
  ELSE IF isInlineLikeNode(b, Head(ch)) THEN <<Head(ch)>> \o LeadingInline(b, Tail(ch), skip)
  ELSE <<>>

\* for (item of items) { from.removeChild(item); to.appendChild(item); }
RECURSIVE MoveAll(_, _, _, _)
MoveAll(b, items, from, to) ==
  IF items = <<>> THEN b
  ELSE MoveAll(AppendChild(RemoveChild(b, from, Head(items)), to, Head(items)),
               Tail(items), from, to)

RECURSIVE RemoveValue(_, _)
RemoveValue(s, x) ==
  IF s = <<>> THEN <<>>
  ELSE IF Head(s) = x THEN RemoveValue(Tail(s), x)
  ELSE <<Head(s)>> \o RemoveValue(Tail(s), x)

\* sprinkleFormattingOnBlockDescendants; SprinkleLoop walks the child list
\* of rootNode, `todo` being what is left of it
RECURSIVE SprinkleLoop(_, _, _, _)
RECURSIVE sprinkleFormattingOnBlockDescendants(_, _, _, _)
\* the recursion into the child, then the next child
SprinkleDescend(b, todo, formattingName, formattingAttrs) ==
  SprinkleLoop(sprinkleFormattingOnBlockDescendants(b, Head(todo), formattingName,
                                                    formattingAttrs),
               Tail(todo), formattingName, formattingAttrs)

\* the clone is empty and the rest is one block with one empty child: the
\* block moves into the clone
SprinkleRest(b, clone, todo, formattingName, formattingAttrs) ==
  LET child == Head(todo)
      rest == RemoveValue(Children(b, child), clone)
  IN SprinkleDescend(
       IF Len(Children(b, clone)) = 0 /\ Len(rest) = 1
          /\ ~isInlineLikeNode(b, rest[1])
          /\ Len(Children(b, rest[1])) = 1
          /\ Len(Children(b, Children(b, rest[1])[1])) = 0
         THEN AppendChild(RemoveChild(b, child, rest[1]), clone, rest[1])
         ELSE b,
       todo, formattingName, formattingAttrs)

\* the clone is empty and the child has one child, a block: it moves into the clone
SprinkleOnly(b, clone, todo, formattingName, formattingAttrs) ==
  LET child == Head(todo)
      only == Children(b, child)[1]
  IN SprinkleRest(
       IF Len(Children(b, clone)) = 0 /\ Len(Children(b, child)) = 1
          /\ ~isInlineLikeNode(b, only)
         THEN AppendChild(RemoveChild(b, child, only), clone, only)
         ELSE b,
       clone, todo, formattingName, formattingAttrs)

\* the leading inline children move into the clone
SprinkleLeading(b, clone, todo, formattingName, formattingAttrs) ==
  SprinkleOnly(MoveAll(b, LeadingInline(b, Children(b, Head(todo)), clone), Head(todo), clone),
               clone, todo, formattingName, formattingAttrs)

\* child.insertBefore(clone, child.children[0] || null)
SprinkleInsert(a, todo, formattingName, formattingAttrs) ==
  SprinkleLeading(InsertBefore(a, Head(todo), LastId(a), At(Children(a, Head(todo)), 0)),
                  LastId(a), todo, formattingName, formattingAttrs)

sprinkleFormattingOnBlockDescendants(b, rootNode, formattingName, formattingAttrs) ==
  SprinkleLoop(b, Children(b, rootNode), formattingName, formattingAttrs)

SprinkleLoop(b, todo, formattingName, formattingAttrs) ==
  IF todo = <<>> \/ b.threw THEN b
  ELSE
    LET child == Head(todo)
        ch == Children(b, child)
        skipIt ==
          \/ child = NULL
          \/ Name(b, child) \in {"#text", "#comment", "#document", "#document-fragment"}
          \/ Name(b, child) \in FORMATTING_TAGS
          \/ IsForeign(b, child)
          \/ Len(ch) = 0
          \/ (Len(ch) = 1 /\ ~isInlineLikeNode(b, ch[1]) /\ Len(Children(b, ch[1])) = 0)
    IN IF skipIt THEN SprinkleLoop(b, Tail(todo), formattingName, formattingAttrs)
       ELSE SprinkleInsert(createElement(b, formattingName, formattingAttrs, "html"),
                           todo, formattingName, formattingAttrs)

MisnestedPivot(b, formattingIndex) ==
  LET above == StackFrom(b, formattingIndex + 1) IN
  above[CHOOSE i \in 1..Len(above) :
          /\ Name(b, above[i]) \notin FORMATTING_TAGS
          /\ \A j \in 1..(i - 1) : Name(b, above[j]) \in FORMATTING_TAGS]

CanMisnestedFormattingRecovery(b, formattingIndex) ==
  /\ formattingIndex >= 1
  /\ formattingIndex < Len(b.stack) - 1
  /\ ~AllFormatting(b, StackFrom(b, formattingIndex + 1))
  /\ Parent(b, MisnestedPivot(b, formattingIndex)) # NULL
  /\ Parent(b, At(b.stack, formattingIndex)) # NULL

\* stack.length = formattingIndex, then the clones, the pivot and the
\* trailing open elements (lines 796-804)
MisnestedStack(b, formattingIndex, clones, pivot, trailingOpen) ==
  PushAll(Push(PushAll(Truncate(b, formattingIndex), clones), pivot), trailingOpen)

\* lines 792-794
MisnestedSprinkle(b, formattingIndex, clones, pivot, trailingOpen) ==
  LET formatting == At(b.stack, formattingIndex) IN
  MisnestedStack(
    IF Name(b, formatting) = "a"
      THEN sprinkleFormattingOnBlockDescendants(b, pivot, "a", N(b, formatting).attrs)
      ELSE b,
    formattingIndex, clones, pivot, trailingOpen)

\* lines 789-791
MisnestedInsertClone(b, formattingClone, wrapped, formattingIndex, clones, pivot, trailingOpen) ==
  MisnestedSprinkle(
    IF wrapped \/ Name(b, At(b.stack, formattingIndex)) \in {"a", "i"}
      THEN InsertBefore(b, pivot, formattingClone, At(Children(b, pivot), 0))
      ELSE b,
    formattingIndex, clones, pivot, trailingOpen)

\* the leading inline children of the pivot move to the clone (lines 777-788)
MisnestedWrap(b, formattingIndex, clones, pivot, trailingOpen) ==
  MisnestedInsertClone(MoveAll(b, LeadingInline(b, Children(b, pivot), NULL), pivot, LastId(b)),
                       LastId(b), LeadingInline(b, Children(b, pivot), NULL) # <<>>,
                       formattingIndex, clones, pivot, trailingOpen)

\* the pivot goes into the last clone, or after the formatting element;
\* then the formatting element is cloned (lines 770-776)
MisnestedPlacePivot(r, formattingIndex, pivot, trailingOpen) ==
  LET formatting == At(r.b.stack, formattingIndex)
      placed == IF r.clones # <<>>
                  THEN AppendChild(r.b, r.clones[Len(r.clones)], pivot)
                  ELSE insertAfter(r.b, Parent(r.b, formatting), pivot, formatting)
  IN MisnestedWrap(createElement(placed, Name(r.b, formatting), N(r.b, formatting).attrs, "html"),
                   formattingIndex, r.clones, pivot, trailingOpen)

\* the formatting prefix is cloned after the formatting element (lines 759-769)
MisnestedReopen(b, formattingIndex, pivot, formattingPrefix, trailingOpen) ==
  MisnestedPlacePivot(CloneChain(b, formattingPrefix, Parent(b, At(b.stack, formattingIndex)),
                                 At(b.stack, formattingIndex), <<>>),
                      formattingIndex, pivot, trailingOpen)

\* misnested recovery, were the pivot taken out and not put back
tryMisnestedFormattingRecoveryDroppingPivot(b, formattingIndex) ==
  LET pivot == MisnestedPivot(b, formattingIndex) IN
  Truncate(RemoveChild(b, Parent(b, pivot), pivot), formattingIndex)

tryMisnestedFormattingRecovery(b, formattingIndex) ==
  LET above == StackFrom(b, formattingIndex + 1)
      pivot == MisnestedPivot(b, formattingIndex)
      pivotIdx == IndexOf(above, pivot)
      prefix0 == FormattingOnly(b, SubSeq(above, 1, pivotIdx))
      formattingPrefix ==
        IF Len(prefix0) > 1 /\ Name(b, prefix0[1]) # Name(b, prefix0[2])
          THEN Tail(prefix0) ELSE prefix0
      trailingOpen == NonFormattingOnly(b, SubSeq(above, pivotIdx + 2, Len(above)))
  IN MisnestedReopen(RemoveChild(b, Parent(b, pivot), pivot), formattingIndex, pivot,
                     formattingPrefix, trailingOpen)

CanHoistTrailingAside(b, formattingIndex) ==
  /\ formattingIndex >= 1
  /\ formattingIndex < Len(b.stack) - 1
  /\ Top(b) # NULL
  /\ Name(b, Top(b)) = "aside"
  /\ Parent(b, Top(b)) # NULL
  /\ Parent(b, At(b.stack, formattingIndex)) # NULL

\* tail.insertBefore(reopened, tail.children[0] || null); stack.length = formattingIndex
HoistReopen(a, tail, formattingIndex) ==
  Truncate(InsertBefore(a, tail, LastId(a), At(Children(a, tail), 0)), formattingIndex)

\* insertAfter(formatting.parent, tail, formatting) and the new b
HoistAfter(b, tail, formattingIndex) ==
  LET formatting == At(b.stack, formattingIndex) IN
  HoistReopen(createElement(insertAfter(b, Parent(b, formatting), tail, formatting),
                            "b", N(b, formatting).attrs, "html"),
              tail, formattingIndex)

tryHoistTrailingAsideFromFormatting(b, formattingIndex) ==
  HoistAfter(RemoveChild(b, Parent(b, Top(b)), Top(b)), Top(b), formattingIndex)

\* ------------------------------------------------------------------------
\* Errors
\* ------------------------------------------------------------------------
CountNewlines(d) == Cardinality({i \in 1..Len(d) : d[i] = "\n"})

\* toLineCol(text, offset): line and column of an offset, both 1-based
toLineCol(text, offset) ==
  LET chunk == SubSeq(text, 1, Min2(Max2(0, offset), Len(text)))
      nl == {i \in 1..Len(chunk) : chunk[i] = "\n"}
      lastNl == IF nl = {} THEN 0 ELSE CHOOSE i \in nl : \A j \in nl : j <= i
  IN [line |-> Cardinality(nl) + 1, column |-> Len(chunk) - lastNl + 1]

\* new ParseError(message, {category, code, line, column}); the message is
\* kept as the tag name it mentions
ParseError(category, code, about, line, column) ==
  [category |-> category, code |-> code, about |-> about, line |-> line, column |-> column]

\* the offset argument `null`
NoOffset == 0 - 1

\* pushTreeError without the collectErrors guard
pushTreeErrorUnguarded(b, collectErrors, code, about, offset, html) ==
  LET position == IF offset = NoOffset THEN [line |-> NULL, column |-> NULL]
                  ELSE toLineCol(html, offset)
  IN [b EXCEPT !.errors =
        Append(@, ParseError("treebuilder", code, about, position.line, position.column))]

\* pushTreeError; a null offset gives a null line and column
pushTreeError(b, collectErrors, code, about, offset, html) ==
  IF ~collectErrors THEN b
  ELSE LET position == IF offset = NoOffset THEN [line |-> NULL, column |-> NULL]
                       ELSE toLineCol(html, offset)
       IN [b EXCEPT !.errors =
             Append(@, ParseError("treebuilder", code, about, position.line, position.column))]

\* ------------------------------------------------------------------------
\* buildTree: one operator per token kind.  b is the builder's state, o the
\* options, tok the token; the result is the state after the token.
\* ------------------------------------------------------------------------
Root == 1

\* publicId.includes("xhtml 1.0 frameset") && systemId.includes("xhtml1-frameset.dtd"),
\* both lower-cased, on the identifiers the model feeds in
XhtmlFramesetPublic == "-//W3C//DTD XHTML 1.0 Frameset//EN"

XhtmlFramesetSystem == "http://www.w3.org/TR/xhtml1/DTD/xhtml1-frameset.dtd"

OnDoctype(b, o, tok) ==
  IF o.fragment \/ b.seenDoctype \/ b.documentElement # NULL THEN b
  ELSE
    LET a == maybeSetLocation(Alloc(b, Doctype(tok.name)))
        a1 == AppendChild(a, Root, LastId(a))
    IN [a1 EXCEPT !.seenDoctype = TRUE,
                  !.closePOnTable = (tok.publicId = XhtmlFramesetPublic
                                     /\ tok.systemId = XhtmlFramesetSystem)]

Scaffold(b, o) == IF o.fragment THEN b ELSE ensureDocumentOnStack(ensureScaffold(b, Root))

\* COMMENT: a CDATA section under a foreign element becomes text (lines 92-105)
CommentCData(b, tok) ==
  LET normalized == ReplaceAll(NormalizeNewlines(CDataPayload(tok.data)), NUL, FFFD)
      a == maybeSetLocation(Alloc(b, Text(normalized)))
  IN AppendChild(a, Top(b), LastId(a))

\* COMMENT: the comment is placed once the scaffold exists (lines 126-141)
InsertComment(b, o, tok) ==
  LET a == maybeSetLocation(Alloc(b, Comment(tok.data)))
      comment == LastId(a)
  IN IF ~o.fragment /\ StartsWith(tok.data, "?")
       THEN InsertBefore(a, Root, comment, At(Children(a, Root), 0))
     ELSE IF /\ ~o.fragment
             /\ Name(a, Top(a)) = "html"
             /\ a.headElement # NULL
             /\ a.bodyElement # NULL
             /\ Len(Children(a, a.headElement)) = 0
             /\ Len(Children(a, a.bodyElement)) = 0
       THEN InsertBefore(a, Top(a), comment, a.headElement)
     ELSE AppendChild(a, currentNode(a, Root, a.bodyElement), comment)

\* COMMENT
OnComment(b, o, tok) ==
  IF IsCData(tok.data) /\ IsForeign(b, Top(b)) THEN CommentCData(b, tok)
  ELSE IF ~o.fragment /\ (b.documentElement = NULL \/ b.afterBody) THEN
    LET a == maybeSetLocation(Alloc(b, Comment(tok.data))) IN AppendChild(a, Root, LastId(a))
  ELSE InsertComment(Scaffold(b, o), o, tok)

IsTextIntegrationPoint(b, id) ==
  \/ Ns(b, id) = "svg" /\ Name(b, id) \in {"foreignobject", "desc", "title"}
  \/ Ns(b, id) = "math" /\ Name(b, id) \in {"mi", "mo", "mn", "ms", "mtext"}

\* TEXT: the NUL replacement, by the parent of the text (lines 174-190)
ReplaceNul(b, tokenData) ==
  LET parentForText == currentNode(b, Root, b.bodyElement) IN
  IF Ns(b, parentForText) = "html"
    THEN (IF Name(b, parentForText) \in {"script", "style", "plaintext"}
            THEN ReplaceAll(tokenData, NUL, FFFD)
            ELSE ReplaceAll(tokenData, NUL, ""))
    ELSE (IF IsTextIntegrationPoint(b, parentForText)
            THEN ReplaceAll(tokenData, NUL, "")
            ELSE ReplaceAll(tokenData, NUL, FFFD))

\* TEXT: the leading newline of the first text of a pre is dropped (lines 191-193)
StripPreNewline(b, textData) ==
  LET parentForText == currentNode(b, Root, b.bodyElement) IN
  IF Name(b, parentForText) = "pre" /\ Len(Children(b, parentForText)) = 0
     /\ StartsWith(textData, "\n")
    THEN Slice(textData, 1) ELSE textData

\* TEXT in a colgroup: the leading white space stays (lines 199-203)
ColgroupSpace(b, parentForText, leadingWhitespace) ==
  IF leadingWhitespace = <<>> THEN b
  ELSE LET a == maybeSetLocation(Alloc(b, Text(leadingWhitespace))) IN AppendChild(a, parentForText, LastId(a))

\* TEXT in a colgroup: the rest is foster-parented (lines 204-208)
ColgroupRemainder(b, remainder) ==
  IF remainder = <<>> THEN b
  ELSE LET a == maybeSetLocation(Alloc(b, Text(remainder))) IN fosterParentInsert(a, LastId(a))

\* TEXT: the text node is made and placed (lines 194-222)
PlaceText(b, o, textData) ==
  LET parentForText == currentNode(b, Root, b.bodyElement)
      k == LeadingSpaceLen(textData)
      a == maybeSetLocation(Alloc(b, Text(textData)))
  IN IF textData = <<>> THEN b
     ELSE IF ~o.fragment /\ Ns(b, parentForText) = "html" /\ Name(b, parentForText) = "colgroup"
       THEN ColgroupRemainder(ColgroupSpace(b, parentForText, SubSeq(textData, 1, k)),
                              Slice(textData, k))
     ELSE IF ~o.fragment /\ shouldFosterParentText(a)
       THEN fosterParentInsert(a, LastId(a))
     ELSE AppendChild(a, currentNode(a, Root, a.bodyElement), LastId(a))

\* TEXT once the scaffold exists (lines 171-222)
InsertText(b, o, tokenData) ==
  IF tokenData = <<>> THEN b
  ELSE PlaceText(b, o, StripPreNewline(b, ReplaceNul(b, tokenData)))

\* TEXT: non-space text closes an open head (lines 144-146)
TextPopsHead(b, o, tok) ==
  IF ~o.fragment /\ Name(b, Top(b)) = "head" /\ HasNonSpace(tok.data) THEN Pop(b) ELSE b

\* TEXT: non-space text closes a noscript in head (lines 147-150)
TextClosesNoscript(b, o, tok) ==
  IF ~o.fragment /\ isHeadNoscriptContext(b) /\ HasNonSpace(tok.data)
    THEN closeHeadNoscriptContext(b) ELSE b

\* TEXT: the newline after a doctype is dropped (lines 151-153)
TokenData(b, o, tok) ==
  IF ~o.fragment /\ b.seenDoctype /\ b.documentElement = NULL /\ StartsWith(tok.data, "\n")
    THEN Slice(tok.data, 1) ELSE tok.data

\* TEXT: non-space text ends framesetOk and afterBody (lines 154-160)
TextVisible(b, o, tokenData) ==
  IF ~o.fragment /\ HasNonSpace(ReplaceAll(tokenData, NUL, ""))
    THEN [b EXCEPT !.framesetOk = FALSE, !.afterBody = FALSE] ELSE b

\* TEXT: white space before the body is dropped, else the scaffold is made
\* and the text inserted (lines 161-222)
TextScaffold(b, o, tokenData) ==
  IF /\ ~o.fragment
     /\ b.framesetOk
     /\ ~HasNonSpace(ReplaceAll(tokenData, NUL, ""))
     /\ b.bodyElement = NULL
    THEN b
    ELSE InsertText(Scaffold(b, o), o, tokenData)

\* TEXT from the token data on (lines 147-222)
TextAfterHead(b, o, tok) ==
  TextScaffold(TextVisible(b, o, TokenData(b, o, tok)), o, TokenData(b, o, tok))

\* TEXT
OnText(b, o, tok) ==
  TextAfterHead(TextClosesNoscript(TextPopsHead(b, o, tok), o, tok), o, tok)

\* StaysClosed, were only the self-closing flag honoured
StaysClosedWhenFlagged(tok, ns) ==
  tok.selfClosing /\ (ns # "html" \/ tok.name \in VOID_ELEMENTS)

\* token.selfClosing && (ns !== "html" || VOID_ELEMENTS.has(name)), or a void element
StaysClosed(tok, ns) ==
  \/ tok.selfClosing /\ (ns # "html" \/ tok.name \in VOID_ELEMENTS)
  \/ tok.name \in VOID_ELEMENTS

IsMathMoTableChild(b, ns, parent, name) ==
  /\ ns = "math"
  /\ Ns(b, parent) = "math"
  /\ Name(b, parent) = "mo"
  /\ name \in {"tr", "tbody", "thead", "tfoot"}

\* ns === "html" and the parent is foreign and is not a foreignobject
LeavesForeign(b, ns, parent) ==
  ns = "html" /\ IsForeign(b, parent) /\ Name(b, parent) # "foreignobject"

\* START_TAG in fragment mode: an html element under a foreign parent pops
\* the foreign elements (lines 245-254)
FragmentLeavesForeign(b, ns, parent) ==
  IF LeavesForeign(b, ns, parent)
    THEN [PopNonHtml(b) EXCEPT !.fragmentRootNamespaceOverride = "html",
                               !.parent = currentNode(PopNonHtml(b), Root, NULL)]
    ELSE [b EXCEPT !.parent = parent]

\* the new element is appended to the parent, and pushed unless it stays
\* closed (lines 255-261, 508-513)
AppendElement(a, tok, ns) ==
  IF StaysClosed(tok, ns)
    THEN AppendChild(a, a.parent, LastId(a))
    ELSE Push(AppendChild(a, a.parent, LastId(a)), LastId(a))

\* START_TAG in fragment mode (lines 227-264)
StartTagFragment(b, o, tok) ==
  LET name == tok.name
      parent == currentNode(b, Root, NULL)
      defaultNamespace ==
        IF parent = Root
          THEN (IF b.fragmentRootNamespaceOverride # NoNamespace
                  THEN b.fragmentRootNamespaceOverride
                  ELSE fragmentDefaultNamespace(o.fragmentNamespace, o.fragmentContextTag))
          ELSE NsOrHtml(b, parent)
      ns == inferNamespace(b, name, parent, defaultNamespace, tok.attrs)
  IN IF o.fragmentNamespace # "html" /\ name \in {"html", "head", "body", "frameset"} THEN b
     ELSE IF IsMathMoTableChild(b, ns, parent, name) THEN b
     ELSE AppendElement(
            maybeSetLocation(createElement(FragmentLeavesForeign(b, ns, parent), name,
                                           tok.attrs, ns)),
            tok, ns)

\* for (info of reopenInsideNewElement): clone under the previous one and push
RECURSIVE ReopenInside(_, _, _)
ReopenInside(b, sources, current) ==
  IF sources = <<>> THEN b
  ELSE
    LET a == createElement(b, Name(b, Head(sources)), N(b, Head(sources)).attrs, "html")
        reopened == LastId(a)
    IN ReopenInside(Push(AppendChild(a, current, reopened), reopened), Tail(sources), reopened)

\* parent = currentNode(stack, root, bodyElement)
SetParent(b) == [b EXCEPT !.parent = currentNode(b, Root, b.bodyElement)]

\* let parent = chooseParent(...); alignStackForParent(...) (lines 414-415)
ChooseAndAlign(b, name) ==
  [alignStackForParent(ChooseParentStack(b, name), ChooseParentResult(b, name))
     EXCEPT !.parent = ChooseParentResult(b, name), !.reopenInsideNewElement = <<>>]

\* the fostered element is pushed unless it stays closed (lines 422-426)
FosterElement(a, tok, ns) ==
  IF StaysClosed(tok, ns)
    THEN fosterParentInsert(a, LastId(a))
    ELSE Push(fosterParentInsert(a, LastId(a)), LastId(a))

\* START_TAG under a table: the element is foster-parented (lines 417-428)
StartTagFoster(b, tok) ==
  LET ns == inferNamespace(b, tok.name, findFosterParent(b), "html", NoAttrs) IN
  FosterElement(maybeSetLocation(createElement(b, tok.name, tok.attrs, ns)), tok, ns)

\* a td or th gets its row (lines 430-437)
CellContext(b, name) ==
  IF name \in {"td", "th"} /\ NsOrHtml(b, currentNode(b, Root, b.bodyElement)) = "html"
    THEN SetParent(ensureTableCellContext(b)) ELSE b

\* a tr gets its row group (lines 438-445)
RowContext(b, name) ==
  IF name = "tr" /\ NsOrHtml(b, currentNode(b, Root, b.bodyElement)) = "html"
    THEN SetParent(ensureTableRowContext(b)) ELSE b

\* an a closes the open a (lines 447-453)
CloseOpenA(b, name) ==
  IF name = "a" /\ findOpenElement(b, "a") >= 0
    THEN SetParent(Truncate(b, findOpenElement(b, "a"))) ELSE b

\* a block in an a closes the a and reopens it inside the block (lines 455-463)
ReparentA(b, name) ==
  LET current == currentNode(b, Root, b.bodyElement) IN
  IF name \in A_REPARENT_BLOCKS /\ current # NULL /\ Name(b, current) = "a"
    THEN SetParent([Truncate(b, Max2(1, Len(b.stack) - 1))
                      EXCEPT !.reopenInsideNewElement = <<current>>])
    ELSE b

\* a start tag that closes an open p; a p reopens the formatting elements
\* that were open in it, but for the last (lines 465-478)
ClosePOnStart(b, name) ==
  LET shouldCloseP == name \in CLOSE_P_ON_START \/ (name = "table" /\ b.closePOnTable)
      pIndex == findOpenElement(b, "p")
      formattingAbove == FormattingOnly(b, StackFrom(b, pIndex + 1))
  IN IF shouldCloseP /\ pIndex >= 0
       THEN SetParent([Truncate(b, pIndex) EXCEPT !.reopenInsideNewElement =
                         IF name # "p" THEN @
                         ELSE IF Len(formattingAbove) > 1
                           THEN SubSeq(formattingAbove, 1, Len(formattingAbove) - 1)
                           ELSE formattingAbove])
       ELSE b

\* an html element under a foreign parent pops the foreign elements (lines 488-499)
LeaveForeign(b, ns) ==
  IF LeavesForeign(b, ns, b.parent) THEN SetParent(PopNonHtml(b)) ELSE b

\* lines 500-503
CellContextAgain(b, name, ns) ==
  IF ns = "html" /\ name \in {"td", "th"} THEN SetParent(ensureTableCellContext(b)) ELSE b

\* lines 504-507
RowContextAgain(b, name, ns) ==
  IF ns = "html" /\ name = "tr" THEN SetParent(ensureTableRowContext(b)) ELSE b

\* the new element is appended and pushed, and the elements to reopen are
\* cloned inside it (lines 508-523)
AppendAndReopen(a, tok, ns) ==
  IF StaysClosed(tok, ns)
    THEN AppendChild(a, a.parent, LastId(a))
    ELSE ReopenInside(Push(AppendChild(a, a.parent, LastId(a)), LastId(a)),
                      a.reopenInsideNewElement, LastId(a))

\* START_TAG, document mode, from the namespace on (lines 480-524)
InsertElement(b, tok) ==
  LET name == tok.name
      ns == inferNamespace(b, name, b.parent, "html", tok.attrs)
  IN IF IsMathMoTableChild(b, ns, b.parent, name) THEN b
     ELSE AppendAndReopen(
            maybeSetLocation(
              createElement(RowContextAgain(CellContextAgain(LeaveForeign(b, ns), name, ns),
                                            name, ns),
                            name, tok.attrs, ns)),
            tok, ns)

\* START_TAG, document mode, once the stack is aligned (lines 417-524)
StartTagAligned(b, tok) ==
  IF shouldFosterParentElement(b, tok.name) THEN StartTagFoster(b, tok)
  ELSE InsertElement(
         ClosePOnStart(
           ReparentA(CloseOpenA(RowContext(CellContext(b, tok.name), tok.name), tok.name),
                     tok.name),
           tok.name),
         tok)

\* START_TAG, document mode, from chooseParent on (lines 414-524)
StartTagInsert(b, tok) == StartTagAligned(ChooseAndAlign(b, tok.name), tok)

\* an li closes the open li (lines 357-362)
CloseLi(b, name) ==
  IF name = "li" /\ findOpenElement(b, "li") >= 0
    THEN Truncate(b, findOpenElement(b, "li")) ELSE b

\* a dd or dt closes the open dd or dt (lines 363-370)
CloseDd(b, name) ==
  LET closeIndex == Max2(findOpenElement(b, "dd"), findOpenElement(b, "dt")) IN
  IF name \in {"dd", "dt"} /\ closeIndex >= 0 THEN Truncate(b, closeIndex) ELSE b

\* an rb, rt, rp or rtc closes the one open inside the ruby (lines 371-386)
CloseRuby(b, name) ==
  LET rubyIndex == findOpenElement(b, "ruby")
      Above(i) == IF i > rubyIndex THEN i ELSE -1
      rtcIndex == IF name \in {"rb", "rtc"} THEN findOpenElement(b, "rtc") ELSE -1
      closeIndex == Max2(Max2(Above(findOpenElement(b, "rb")), Above(findOpenElement(b, "rt"))),
                         Max2(Above(findOpenElement(b, "rp")), Above(rtcIndex)))
  IN IF name \in {"rb", "rt", "rp", "rtc"} /\ closeIndex >= 0
       THEN Truncate(b, closeIndex) ELSE b

\* a form or an input inside a table (lines 388-412)
StartTagInTable(b, tok) ==
  LET name == tok.name
      tableIndex == findNearestIndex(b, "table")
      inTable == tableIndex >= 0 /\ NsOrHtml(b, currentNode(b, Root, b.bodyElement)) = "html"
      form == maybeSetLocation(createElement(b, "form", tok.attrs, "html"))
      input == maybeSetLocation(createElement(b, "input", tok.attrs, "html"))
  IN IF inTable /\ name = "form"
       THEN AppendChild(form, At(b.stack, tableIndex), LastId(form))
     ELSE IF inTable /\ name = "input" THEN
       (IF TypeLower(tok.attrs) = "hidden"
          THEN AppendChild(input, At(b.stack, tableIndex), LastId(input))
          ELSE fosterParentInsert(input, LastId(input)))
     ELSE StartTagInsert(b, tok)

\* START_TAG, document mode, the stack heuristics before chooseParent (lines 353-412)
StartTagHeuristics(b, tok) ==
  StartTagInTable(
    CloseRuby(CloseDd(CloseLi(applySelectStartTagHeuristics(b, tok.name), tok.name), tok.name),
              tok.name),
    tok)

\* Object.assign(documentElement.attrs, token.attrs)
MergeHtml(b, tok) == [b EXCEPT !.nodes[b.documentElement].attrs = ObjectAssign(@, tok.attrs)]

\* ensureDocumentOnStack(stack, documentElement); stack.length = 2; stack.push(element)
OpenUnderHtml(b, element) == Push(Truncate(ensureDocumentOnStack(b), 2), element)

\* <body>: the body is made, or takes the attributes it lacks (lines 336-347)
BodyTag(b, tok) ==
  IF b.bodyElement = NULL
    THEN LET a == maybeSetLocation(createElement(b, "body", tok.attrs, "html")) IN
         [AppendChild(a, a.documentElement, LastId(a)) EXCEPT !.bodyElement = LastId(a)]
    ELSE [b EXCEPT !.nodes[b.bodyElement].attrs = AssignMissing(@, tok.attrs)]

\* <body>: the stack is html, body (lines 348-350)
OpenBody(b) == OpenUnderHtml(b, b.bodyElement)

\* <html>, <head>, <body> (lines 310-351); documentElement and headElement
\* are set since ensureScaffold
StartTagScaffold(b, tok) ==
  IF tok.name = "html" THEN MergeHtml(b, tok)
  ELSE IF tok.name = "head" THEN OpenUnderHtml(b, b.headElement)
  ELSE IF tok.name = "body" THEN OpenBody(BodyTag(b, tok))
  ELSE StartTagHeuristics(b, tok)

\* a start tag in a noscript in head (lines 295-308)
StartTagNoscript(b, tok) ==
  LET name == tok.name
      noscript == isHeadNoscriptContext(b)
  IN IF noscript /\ name = "html" THEN MergeHtml(b, tok)
     ELSE IF noscript /\ name \in {"head", "noscript"} THEN b
     ELSE StartTagScaffold(
            IF noscript /\ name \notin {"link", "meta", "style", "basefont", "bgsound", "noframes"}
              THEN closeHeadNoscriptContext(b) ELSE b,
            tok)

\* <frameset>: the body goes (lines 279-282)
DropBody(b) ==
  IF b.bodyElement # NULL /\ Parent(b, b.bodyElement) = b.documentElement
    THEN [RemoveChild(b, b.documentElement, b.bodyElement) EXCEPT !.bodyElement = NULL]
    ELSE b

\* <frameset>, were the stack not cut back to html
FramesetKeepingStack(b, tok) ==
  LET a == maybeSetLocation(createElement(b, "frameset", tok.attrs, "html")) IN
  Push(AppendChild(a, a.documentElement, LastId(a)), LastId(a))

\* <frameset>: the frameset is made (lines 283-288)
Frameset(b, tok) ==
  LET a == maybeSetLocation(createElement(b, "frameset", tok.attrs, "html")) IN
  Push(Truncate(AppendChild(a, a.documentElement, LastId(a)), 2), LastId(a))

\* an input that is not hidden ends framesetOk (lines 291-293)
InputEndsFramesetOk(b, tok) ==
  IF tok.name = "input" /\ TypeLower(tok.attrs) # "hidden"
    THEN [b EXCEPT !.framesetOk = FALSE] ELSE b

\* START_TAG once the scaffold exists, were framesetOk not consulted
StartTagScaffoldedAnyFrameset(b, tok) ==
  LET insertionPoint == currentNode(b, Root, b.bodyElement)
      inHtmlContext == Ns(b, insertionPoint) \in {NoNamespace, "html"}
  IN IF tok.name = "frameset" /\ inHtmlContext
       THEN Frameset(DropBody(b), tok)
       ELSE StartTagNoscript(InputEndsFramesetOk(b, tok), tok)

\* START_TAG, document mode, once the scaffold exists (lines 273-524)
StartTagScaffolded(b, tok) ==
  LET insertionPoint == currentNode(b, Root, b.bodyElement)
      inHtmlContext == Ns(b, insertionPoint) \in {NoNamespace, "html"}
  IN IF tok.name = "frameset" /\ inHtmlContext
       THEN (IF ~b.framesetOk THEN b ELSE Frameset(DropBody(b), tok))
       ELSE StartTagNoscript(InputEndsFramesetOk(b, tok), tok)

\* START_TAG, document mode
StartTagDocument(b, tok) ==
  StartTagScaffolded(ensureDocumentOnStack(ensureScaffold(b, Root)), tok)

\* the locals of the START_TAG case end with it
EndCase(b) == [b EXCEPT !.parent = NULL, !.reopenInsideNewElement = <<>>]

\* START_TAG
OnStartTag(b, o, tok) ==
  EndCase(IF o.fragment
            THEN StartTagFragment([b EXCEPT !.afterBody = FALSE], o, tok)
            ELSE StartTagDocument([b EXCEPT !.afterBody = FALSE], tok))

\* </p>, were the formatting elements above the p not cloned
EndTagPWithoutClones(b, foundIndex) == Truncate(b, foundIndex)

\* </p>: the formatting elements open in the p are cloned after it (lines 590-606)
EndTagP(b, foundIndex) ==
  LET pNode == At(b.stack, foundIndex)
      parent == Parent(b, pNode)
      above == FormattingOnly(b, StackFrom(b, foundIndex + 1))
  IN IF parent # NULL /\ above # <<>>
       THEN PushClones(CloneChain(Truncate(b, foundIndex), above, parent, pNode, <<>>))
       ELSE Truncate(b, foundIndex)

\* END_TAG once an open element was found at foundIndex (lines 578-618)
EndTagFound(b, tok, foundIndex) ==
  LET name == tok.name
      closed == [Truncate(b, foundIndex) EXCEPT
                   !.afterBody = IF name \in {"body", "html"} THEN TRUE ELSE @]
  IN IF hasForeignContentAbove(b, foundIndex) THEN closed
     ELSE IF name = "b" /\ CanHoistTrailingAside(b, foundIndex)
       THEN tryHoistTrailingAsideFromFormatting(b, foundIndex)
     ELSE IF name = "p" THEN EndTagP(b, foundIndex)
     ELSE IF name \in FORMATTING_TAGS /\ CanFormattingSplitRecovery(b, foundIndex)
       THEN tryFormattingSplitRecovery(b, foundIndex)
     ELSE IF name \in FORMATTING_TAGS /\ CanMisnestedFormattingRecovery(b, foundIndex)
       THEN tryMisnestedFormattingRecovery(b, foundIndex)
     ELSE closed

\* END_TAG with no open element of the name (lines 565-576)
EndTagUnmatched(b, o, tok, html) ==
  LET parent == currentNode(b, Root, b.bodyElement)
      a == createElement(b, "br", NoAttrs, inferNamespace(b, "br", parent, "html", NoAttrs))
  IN IF tok.name = "form" THEN b
     ELSE IF tok.name = "br" THEN AppendChild(a, parent, LastId(a))
     ELSE pushTreeError(b, o.collectErrors, "unexpected-end-tag", tok.name, tok.pos, html)

\* END_TAG from the lookup of the open element on (lines 562-618)
EndTagLookup(b, o, tok, html) ==
  LET foundIndex == IF tok.name \in TABLE_END_TAGS
                      THEN findOpenElementInNamespace(b, tok.name, "html")
                      ELSE findOpenElement(b, tok.name)
  IN IF foundIndex < 0 THEN EndTagUnmatched(b, o, tok, html)
     ELSE EndTagFound(b, tok, foundIndex)

\* root.appendChild(synthetic) (lines 555-559)
AppendSynthetic(a, poppedForeign) ==
  [AppendChild(a, Root, LastId(a)) EXCEPT
     !.fragmentRootNamespaceOverride = IF poppedForeign THEN "html" ELSE @]

\* </p> and </br> under a foreign element of a fragment (lines 547-561)
EndTagFragment(b, o, tok, html) ==
  IF o.fragment /\ tok.name \in {"p", "br"} /\ Ns(b, Top(b)) # "html"
    THEN AppendSynthetic(createElement(PopNonHtml(b), tok.name, NoAttrs, "html"),
                         Len(b.stack) > 1)
    ELSE EndTagLookup(b, o, tok, html)

\* END_TAG
OnEndTag(b, o, tok, html) ==
  LET name == tok.name
      noscript == ~o.fragment /\ isHeadNoscriptContext(b)
  IN IF /\ name = "menuitem"
        /\ Name(b, Top(b)) = "p"
        /\ findOpenElement(b, "menuitem") >= 0
       THEN b
     ELSE IF noscript /\ name = "noscript" THEN Truncate(b, Max2(1, Len(b.stack) - 1))
     ELSE IF noscript /\ name = "p" THEN b
     ELSE EndTagFragment(IF noscript /\ name = "br" THEN closeHeadNoscriptContext(b) ELSE b,
                         o, tok, html)

\* ------------------------------------------------------------------------
\* buildTree: end of the token stream
\* ------------------------------------------------------------------------
\* the EOF error pass without the exemption of html, head and body
RECURSIVE EofErrorsForScaffold(_, _, _)
EofErrorsForScaffold(b, i, html) ==
  IF i < 1 \/ b.threw THEN b
  ELSE
    LET node == At(b.stack, i) IN
    IF node = NULL THEN Throw(b)
    ELSE EofErrorsForScaffold(pushTreeError(b, TRUE, "expected-closing-tag-but-got-eof",
                                            Name(b, node), NoOffset, html), i - 1, html)

\* the EOF error pass, from the top of the stack down to index 1
RECURSIVE EofErrors(_, _, _)
EofErrors(b, i, html) ==
  IF i < 1 \/ b.threw THEN b
  ELSE
    LET node == At(b.stack, i) IN
    IF node = NULL THEN Throw(b)
    ELSE IF Name(b, node) \in {"#text", "#comment", "#document", "#document-fragment",
                               "!doctype", "html", "head", "body"}
      THEN EofErrors(b, i - 1, html)
    ELSE EofErrors(pushTreeError(b, TRUE, "expected-closing-tag-but-got-eof",
                                 Name(b, node), NoOffset, html), i - 1, html)

\* Node.cloneNode(true): the clone is the first node allocated by the call
RECURSIVE DeepClone(_, _)
RECURSIVE CloneChildrenInto(_, _, _)
DeepClone(b, id) ==
  CloneChildrenInto(Alloc(b, Node(N(b, id).name, N(b, id).attrs, N(b, id).data,
                                  N(b, id).namespace)),
                    LastId(b) + 1, N(b, id).children)

CloneChildrenInto(b, clone, ch) ==
  IF ch = <<>> THEN b
  ELSE CloneChildrenInto(AppendChild(DeepClone(b, Head(ch)), clone, LastId(b) + 1),
                         clone, Tail(ch))

FirstNamed(b, ch, name) ==
  LET hits == {i \in 1..Len(ch) : Name(b, ch[i]) = name} IN
  IF hits = {} THEN NULL ELSE ch[CHOOSE i \in hits : \A j \in hits : i <= j]

\* for (child of selected.children) selectedContent.appendChild(child.cloneNode(true))
RECURSIVE AppendClones(_, _, _)
AppendClones(b, target, ch) ==
  IF ch = <<>> THEN b
  ELSE AppendClones(AppendChild(DeepClone(b, Head(ch)), target, LastId(b) + 1),
                    target, Tail(ch))

Reverse(s) == [i \in 1..Len(s) |-> s[Len(s) + 1 - i]]

\* fillSelectedContent: `work` is the traversal stack, its top at the end
RECURSIVE FillLoop(_, _)
\* for (let i = node.children.length - 1; i >= 0; i -= 1) stack.push(node.children[i])
FillChildren(b, node, rest) == FillLoop(b, rest \o Reverse(Children(b, node)))

FillLoop(b, work) ==
  IF work = <<>> THEN b
  ELSE
    LET node == work[Len(work)]
        rest == SubSeq(work, 1, Len(work) - 1)
        button == FirstNamed(b, Children(b, node), "button")
        selectedContent == FirstNamed(b, Children(b, button), "selectedcontent")
        options == FilterSeq(Children(b, node),
                             {c \in 1..Len(b.nodes) : b.nodes[c].name = "option"})
        marked == {i \in 1..Len(options) : HasAttr(N(b, options[i]).attrs, "selected")}
        selected == IF marked = {} THEN options[1]
                    ELSE options[CHOOSE i \in marked : \A j \in marked : i <= j]
    IN FillChildren(IF /\ Name(b, node) = "select"
                       /\ NsOrHtml(b, node) = "html"
                       /\ selectedContent # NULL
                       /\ Len(Children(b, selectedContent)) = 0
                       /\ options # <<>>
                      THEN AppendClones(b, selectedContent, Children(b, selected))
                      ELSE b,
                    node, rest)

fillSelectedContent(b) == FillLoop(b, <<Root>>)

\* the EOF error pass (lines 625-635)
FinishErrors(b, o, html) ==
  IF o.collectErrors THEN EofErrors(b, Len(b.stack) - 1, html) ELSE b

\* fillSelectedContent(root) (line 645)
FinishFill(b) == IF b.threw THEN b ELSE fillSelectedContent(b)

\* the scaffold is completed in document mode (lines 637-644)
FinishScaffold(b, o) ==
  IF b.threw \/ o.fragment THEN b ELSE ensureScaffold(b, Root)

\* the code after the token loop with the scaffold made in fragment mode too
FinishScaffoldsFragment(b, o, html) ==
  FinishFill(FinishScaffold(FinishErrors(b, o, html), [o EXCEPT !.fragment = FALSE]))

\* the code after the token loop (lines 625-646)
Finish(b, o, html) == FinishFill(FinishScaffold(FinishErrors(b, o, html), o))

\* a comparator key that puts null before every number
KeyBeforeNullFirst(x, y) == y # NULL /\ (x = NULL \/ x < y)

\* ------------------------------------------------------------------------
\* Error sort and strict mode (errors.js, JustHTML constructor)
\* ------------------------------------------------------------------------
\* The comparator of sortErrors on entries {error, idx}: TRUE when a sorts
\* before b.  A null line or column stands for Number.MAX_SAFE_INTEGER, which
\* no line or column of an input reaches, so it compares above every number.
KeyBefore(x, y) == x # NULL /\ (y = NULL \/ x < y)

ComparatorBefore(a, b) ==
  IF a.error.line # b.error.line THEN KeyBefore(a.error.line, b.error.line)
  ELSE IF a.error.column # b.error.column THEN KeyBefore(a.error.column, b.error.column)
  ELSE a.idx < b.idx

\* Array.prototype.sort with a comparator that is a strict total order on
\* the entries: an insertion sort
RECURSIVE InsertSorted(_, _)
InsertSorted(sorted, e) ==
  IF sorted = <<>> THEN <<e>>
  ELSE IF ComparatorBefore(e, Head(sorted)) THEN <<e>> \o sorted
  ELSE <<Head(sorted)>> \o InsertSorted(Tail(sorted), e)

RECURSIVE SortEntries(_)
SortEntries(entries) ==
  IF entries = <<>> THEN <<>>
  ELSE InsertSorted(SortEntries(SubSeq(entries, 1, Len(entries) - 1)), entries[Len(entries)])

sortErrors(errs) ==
  LET entries == [i \in 1..Len(errs) |-> [error |-> errs[i], idx |-> i - 1]]
      sorted == SortEntries(entries)
  IN [i \in 1..Len(sorted) |-> sorted[i].error]

\* emitError of the tokenizer
emitError(errs, collectErrors, code, pos, html) ==
  IF ~collectErrors THEN errs
  ELSE LET position == toLineCol(html, pos) IN
       Append(errs, ParseError("tokenizer", code, "", position.line, position.column))

\* ------------------------------------------------------------------------
\* Inputs: tokens, options, source text
\* ------------------------------------------------------------------------
Token(kind, name, attrs, selfClosing, data, publicId, systemId) ==
  [kind |-> kind, name |-> name, attrs |-> attrs, selfClosing |-> selfClosing,
   data |-> data, publicId |-> publicId, systemId |-> systemId, pos |-> 0]

StartTok(name, attrs, selfClosing) == Token("start_tag", name, attrs, selfClosing, <<>>, "", "")

EndTok(name) == Token("end_tag", name, NoAttrs, FALSE, <<>>, "", "")

TextTok(data) == Token("text", "", NoAttrs, FALSE, data, "", "")

CommentTok(data) == Token("comment", "", NoAttrs, FALSE, data, "", "")

DoctypeTok(name, publicId, systemId) == Token("doctype", name, NoAttrs, FALSE, <<>>, publicId, systemId)

Plain(names) == {StartTok(n, NoAttrs, FALSE) : n \in names}

\* The token alphabets.  Each one exercises one family of tree-builder rules.
Alphabets ==
  [scaffold |->
     [start |-> Plain({"html", "head", "body", "frameset", "noscript"})
                  \cup {StartTok("input", {<<"type", "HIDDEN">>}, FALSE)},
      end |-> {"body", "html", "head", "br", "p"},
      text |-> {<<" ">>, <<"a">>},
      comment |-> {<<"x">>},
      doctype |-> {DoctypeTok("html", XhtmlFramesetPublic, XhtmlFramesetSystem)}],
   table |->
     [start |-> Plain({"table", "td", "tr", "colgroup", "form", "a"})
                  \cup {StartTok("input", {<<"type", "hidden">>}, FALSE)},
      end |-> {"table", "td"},
      text |-> {<<"a">>, <<" ", "a">>},
      comment |-> {<<"x">>},
      doctype |-> {}],
   formatting |->
     [start |-> Plain({"a", "b", "i", "p", "div", "aside"})
                  \cup {StartTok("font", {<<"color", "red">>}, FALSE)},
      end |-> {"a", "b", "p", "div"},
      text |-> {<<"a">>},
      comment |-> {},
      doctype |-> {}],
   foreign |->
     [start |-> Plain({"Svg", "math", "mo", "desc", "DIV", "template"})
                  \cup {StartTok("font", {<<"color", "red">>}, FALSE),
                        StartTok("g", NoAttrs, TRUE)},
      end |-> {"svg"},
      text |-> {<<NUL>>, <<"a", NUL>>},
      comment |-> {CDataOpen \o CDataClose, CDataOpen \o <<"\r", "\n", NUL>> \o CDataClose},
      doctype |-> {}],
   lists |->
     [start |-> Plain({"select", "selectedcontent", "button", "li", "dd", "pre", "hr"})
                  \cup {StartTok("option", {<<"selected", "">>}, FALSE)},
      end |-> {"select", "li"},
      text |-> {<<"\n">>, <<"\n", "a">>},
      comment |-> {},
      doctype |-> {}],
   errors |->
     [start |-> Plain({"div", "b"}),
      end |-> {"div", "x"},
      text |-> {<<"a">>},
      comment |-> {<<"x">>, <<"?", "x">>},
      doctype |-> {DoctypeTok("html", "", "")}],
   rows |->
     [start |-> Plain({"table", "a", "tr", "td"}),
      end |-> {},
      text |-> {<<"a">>},
      comment |-> {},
      doctype |-> {}],
   inline |->
     [start |-> Plain({"p", "b", "i", "div"}) \cup {StartTok("a", {<<"href", "x">>}, FALSE)},
      end |-> {"p", "b", "a"},
      text |-> {<<"a">>},
      comment |-> {},
      doctype |-> {}],
   blocks |->
     [start |-> Plain({"p", "table", "div", "hr", "math", "foreignobject"})
                  \cup {StartTok("hr", NoAttrs, TRUE)},
      end |-> {"p"},
      text |-> {},
      comment |-> {},
      doctype |-> {}]]

\* The fragment contexts: NoContext is "no fragmentContext option"
NoContext == [tagName |-> "", namespace |-> NoNamespace]

FragmentContexts ==
  {[tagName |-> "div", namespace |-> NoNamespace],
   [tagName |-> "svg", namespace |-> "svg"],
   [tagName |-> "desc", namespace |-> "svg"],
   [tagName |-> "mo", namespace |-> "math"],
   [tagName |-> "DIV", namespace |-> "xml"]}

\* The source text: only its line structure reaches the model
HtmlText == <<"a", "\n", "a", "\n", "\n", "a">>

Options(fragment, fragmentContext, collectErrors, strict) ==
  [fragment |-> fragment, fragmentContext |-> fragmentContext,
   collectErrors |-> collectErrors, strict |-> strict, trackNodeLocations |-> FALSE]

\* the options of buildTree with collectErrors not implied by strict
BuildOptionsIgnoresStrict(options) ==
  [fragment |-> options.fragment \/ options.fragmentContext # NoContext,
   fragmentNamespace |-> IF options.fragmentContext.namespace = NoNamespace
                           THEN "html" ELSE options.fragmentContext.namespace,
   fragmentContextTag |-> ToLowerCase(options.fragmentContext.tagName),
   collectErrors |-> options.collectErrors,
   trackNodeLocations |-> options.trackNodeLocations]

\* the options buildTree and tokenizeHTML are called with (JustHTML
\* constructor, lines 24-31)
BuildOptions(options) ==
  [fragment |-> options.fragment \/ options.fragmentContext # NoContext,
   fragmentNamespace |-> IF options.fragmentContext.namespace = NoNamespace
                           THEN "html" ELSE options.fragmentContext.namespace,
   fragmentContextTag |-> ToLowerCase(options.fragmentContext.tagName),
   collectErrors |-> options.collectErrors \/ options.strict,
   trackNodeLocations |-> options.trackNodeLocations]

\* ------------------------------------------------------------------------
\* Strings: sequences of one-character strings, indexed from 0 as in the code
\* ------------------------------------------------------------------------
\* str[i]; undefined reads as the empty string, as `str[i] || ""` does
CharAt(str, i) == IF i >= 0 /\ i < Len(str) THEN str[i + 1] ELSE ""

\* str.slice(from, to) for non-negative arguments
StrSlice(str, from, to) == SubSeq(str, Min2(from, Len(str)) + 1, Min2(to, Len(str)))

\* str.startsWith(needle, at)
StrStartsWith(str, needle, at) ==
  at >= 0 /\ at + Len(needle) <= Len(str) /\ SubSeq(str, at + 1, at + Len(needle)) = needle

\* str.indexOf(needle, from), -1 when there is none
StrIndexOf(str, needle, from) ==
  LET hits == {k \in Max2(from, 0)..(Len(str) - Len(needle)) : StrStartsWith(str, needle, k)}
  IN IF hits = {} THEN 0 - 1 ELSE CHOOSE k \in hits : \A j \in hits : k <= j

\* str.lastIndexOf(needle, from), -1 when there is none
StrLastIndexOf(str, needle, from) ==
  LET hits == {k \in 0..Min2(from, Len(str) - Len(needle)) : StrStartsWith(str, needle, k)}
  IN IF hits = {} THEN 0 - 1 ELSE CHOOSE k \in hits : \A j \in hits : k >= j

UpperLetters ==
  <<"A", "B", "C", "D", "E", "F", "G", "H", "I", "J", "K", "L", "M",
    "N", "O", "P", "Q", "R", "S", "T", "U", "V", "W", "X", "Y", "Z">>

LowerLetters ==
  <<"a", "b", "c", "d", "e", "f", "g", "h", "i", "j", "k", "l", "m",
    "n", "o", "p", "q", "r", "s", "t", "u", "v", "w", "x", "y", "z">>

Digits == <<"0", "1", "2", "3", "4", "5", "6", "7", "8", "9">>

\* the position of ch in a tuple of characters, 0 when it is not there
PlaceIn(chars, ch) ==
  IF \E k \in 1..Len(chars) : chars[k] = ch
    THEN CHOOSE k \in 1..Len(chars) : chars[k] = ch ELSE 0

LowerChar(ch) == IF PlaceIn(UpperLetters, ch) > 0 THEN LowerLetters[PlaceIn(UpperLetters, ch)] ELSE ch

\* U+0130, capital I with a dot above: the one character that toLowerCase
\* turns into two, "i" and the combining dot U+0307
DottedI == "U+0130"

CombiningDot == "U+0307"

\* str.toLowerCase(): the result is longer than str by one for each U+0130
RECURSIVE StrToLowerCase(_)
StrToLowerCase(str) ==
  IF str = <<>> THEN <<>>
  ELSE IF Head(str) = DottedI THEN <<"i", CombiningDot>> \o StrToLowerCase(Tail(str))
  ELSE <<LowerChar(Head(str))>> \o StrToLowerCase(Tail(str))

IsLetter(ch) == PlaceIn(UpperLetters, ch) > 0 \/ PlaceIn(LowerLetters, ch) > 0

IsDigit(ch) == PlaceIn(Digits, ch) > 0

\* str.trim(), on the whitespace of the model
RECURSIVE TrimStart(_)
TrimStart(str) == IF str # <<>> /\ IsSpace(Head(str)) THEN TrimStart(Tail(str)) ELSE str

RECURSIVE TrimEnd(_)
TrimEnd(str) ==
  IF str # <<>> /\ IsSpace(str[Len(str)]) THEN TrimEnd(SubSeq(str, 1, Len(str) - 1)) ELSE str

Trim(str) == TrimEnd(TrimStart(str))

Range(chars) == {chars[k] : k \in 1..Len(chars)}

Spaces == {" ", "\n", "\t", "\r", "\f"}

\* `while (i < src.length && /[class]/.test(src[i])) i += 1`: where it stops
SkipWhile(str, i, class) ==
  IF \A k \in i..(Len(str) - 1) : CharAt(str, k) \in class THEN Max2(i, Len(str))
  ELSE CHOOSE k \in i..(Len(str) - 1) :
         /\ CharAt(str, k) \notin class
         /\ \A j \in i..(k - 1) : CharAt(str, j) \in class

\* `while (i < src.length && !/[class]/.test(src[i])) i += 1`: where it stops
RECURSIVE SkipUntil(_, _, _)
SkipUntil(str, i, class) ==
  IF i < Len(str) /\ CharAt(str, i) \notin class THEN SkipUntil(str, i + 1, class) ELSE i

\* ------------------------------------------------------------------------
\* Character references (entities.js)
\* ------------------------------------------------------------------------
\* the named-entity table: the keys the model uses, with and without their
\* semicolon, as pairs <<key, replacement>>
HTML5_NAMED_ENTITIES ==
  {<<(<<"a", "m", "p", ";">>), (<<"&">>)>>, <<(<<"a", "m", "p">>), (<<"&">>)>>,
   <<(<<"l", "t", ";">>), (<<"<">>)>>, <<(<<"l", "t">>), (<<"<">>)>>,
   <<(<<"n", "o", "t">>), (<<"NOT">>)>>, <<(<<"n", "o", "t", "i", "n", ";">>), (<<"NOTIN">>)>>}

MAX_NAMED_ENTITY_LENGTH ==
  CHOOSE n \in 0..32 :
    /\ \A e \in HTML5_NAMED_ENTITIES : Len(e[1]) <= n
    /\ \E e \in HTML5_NAMED_ENTITIES : Len(e[1]) = n

\* code points as decimal numbers: 0x80 is 128, 0x20ac is 8364, ...
C1_REPLACEMENTS ==
  {<<128, 8364>>, <<130, 8218>>, <<131, 402>>, <<132, 8222>>, <<133, 8230>>, <<134, 8224>>,
   <<135, 8225>>, <<136, 710>>, <<137, 8240>>, <<138, 352>>, <<139, 8249>>, <<140, 338>>,
   <<142, 381>>, <<145, 8216>>, <<146, 8217>>, <<147, 8220>>, <<148, 8221>>, <<149, 8226>>,
   <<150, 8211>>, <<151, 8212>>, <<152, 732>>, <<153, 8482>>, <<154, 353>>, <<155, 8250>>,
   <<156, 339>>, <<158, 382>>, <<159, 376>>}

ReplacementCodePoint == 65533

MaxCodePoint == 1114111

FirstSurrogate == 55296

LastSurrogate == 57343

\* a finite number too large to be kept exactly: every comparison the decoder
\* makes with it comes out as it does for any finite value of 2^26 or more
Huge == 2 ^ 26

\* the value Infinity
Infinity == Huge + 1

\* the longest digit run whose value is still a finite double
MaxFiniteDigits(radix) == IF radix = 10 THEN 309 ELSE 256

HexLetters == <<"a", "b", "c", "d", "e", "f">>

\* isRadixDigit
isRadixDigit(ch, radix) ==
  IsDigit(ch) \/ (radix = 16 /\ PlaceIn(HexLetters, LowerChar(ch)) > 0)

DigitValue(ch) ==
  IF IsDigit(ch) THEN PlaceIn(Digits, ch) - 1 ELSE 9 + PlaceIn(HexLetters, LowerChar(ch))

\* Number.parseInt(raw, radix) on a non-empty run of digits of the radix:
\* exact below Huge, Huge above it, Infinity beyond the range of a double
RECURSIVE ParseDigits(_, _, _, _)
ParseDigits(raw, radix, acc, significant) ==
  IF raw = <<>> \/ acc = Huge
    THEN (IF significant + Len(raw) > MaxFiniteDigits(radix) THEN Infinity ELSE acc)
    ELSE ParseDigits(Tail(raw), radix,
                     Min2(Huge, acc * radix + DigitValue(Head(raw))),
                     IF acc = 0 /\ DigitValue(Head(raw)) = 0 THEN 0 ELSE significant + 1)

parseInt(raw, radix) == ParseDigits(raw, radix, 0, 0)

\* normalizeCodePoint without the test for code points above 0x10ffff
normalizeCodePointUnbounded(codePoint) ==
  IF \E r \in C1_REPLACEMENTS : r[1] = codePoint
    THEN (CHOOSE r \in C1_REPLACEMENTS : r[1] = codePoint)[2]
  ELSE IF codePoint = 0 THEN ReplacementCodePoint
  ELSE IF codePoint >= FirstSurrogate /\ codePoint <= LastSurrogate THEN ReplacementCodePoint
  ELSE codePoint

\* normalizeCodePoint
normalizeCodePoint(codePoint) ==
  IF \E r \in C1_REPLACEMENTS : r[1] = codePoint
    THEN (CHOOSE r \in C1_REPLACEMENTS : r[1] = codePoint)[2]
  ELSE IF codePoint = 0 THEN ReplacementCodePoint
  ELSE IF codePoint > MaxCodePoint THEN ReplacementCodePoint
  ELSE IF codePoint >= FirstSurrogate /\ codePoint <= LastSurrogate THEN ReplacementCodePoint
  ELSE codePoint

\* String.fromCodePoint throws a RangeError unless its argument is an integer
\* from 0 to 0x10ffff
IsCodePoint(cp) == cp >= 0 /\ cp <= MaxCodePoint

\* the character of a code point: the characters the model writes out, and
\* the decimal number of any other code point
fromCodePoint(cp) ==
  CASE cp = 0 -> NUL
    [] cp = 9 -> "\t"
    [] cp = 10 -> "\n"
    [] cp = 13 -> "\r"
    [] cp = 32 -> " "
    [] cp = 38 -> "&"
    [] cp = 60 -> "<"
    [] cp = 62 -> ">"
    [] cp >= 48 /\ cp <= 57 -> Digits[cp - 47]
    [] cp >= 65 /\ cp <= 90 -> UpperLetters[cp - 64]
    [] cp >= 97 /\ cp <= 122 -> LowerLetters[cp - 96]
    [] cp = ReplacementCodePoint -> FFFD
    [] OTHER -> ToString(cp)

\* the result `null` of a decoder
NoReference == [value |-> <<>>, nextIndex |-> 0 - 1, codePoint |-> 0 - 1, threw |-> FALSE]

IsAsciiAlnumOrEq(ch) == IsDigit(ch) \/ IsLetter(ch) \/ ch = "="

\* decodeNumeric: the result for the code point cp (lines 78-79)
NumericResult(cp, nextIndex) ==
  [value |-> IF IsCodePoint(cp) THEN <<fromCodePoint(cp)>> ELSE <<>>,
   nextIndex |-> nextIndex, codePoint |-> cp, threw |-> ~IsCodePoint(cp)]

\* decodeNumeric: the value parseInt gave, made a code point (lines 73-78)
NumericCodePoint(parsed) ==
  normalizeCodePoint(IF parsed = Infinity THEN ReplacementCodePoint ELSE parsed)

\* decodeNumeric, once the digits from digitStart are known to end at i
\* (lines 62-79)
NumericAt(input, digitStart, i, radix, inAttribute) ==
  IF i = digitStart THEN NoReference
  ELSE IF CharAt(input, i) # ";" /\ inAttribute /\ IsAsciiAlnumOrEq(CharAt(input, i))
    THEN NoReference
  ELSE NumericResult(NumericCodePoint(parseInt(StrSlice(input, digitStart, i), radix)),
                     IF CharAt(input, i) = ";" THEN i + 1 ELSE i)

\* decodeNumeric, from the digits on (lines 58-79)
NumericValue(input, digitStart, radix, inAttribute) ==
  NumericAt(input, digitStart,
            SkipWhile(input, digitStart, {ch \in Range(input) : isRadixDigit(ch, radix)}),
            radix, inAttribute)

\* decodeNumeric
decodeNumeric(input, ampIndex, inAttribute) ==
  NumericValue(input,
               IF LowerChar(CharAt(input, ampIndex + 2)) = "x" THEN ampIndex + 3 ELSE ampIndex + 2,
               IF LowerChar(CharAt(input, ampIndex + 2)) = "x" THEN 16 ELSE 10,
               inAttribute)

\* decodeNamed: the keys from the longest down (lines 83-99)
RECURSIVE NamedFrom(_, _, _, _)
NamedFrom(input, ampIndex, end, inAttribute) ==
  IF end <= ampIndex + 1 THEN NoReference
  ELSE IF \A e \in HTML5_NAMED_ENTITIES : e[1] # StrSlice(input, ampIndex + 1, end)
    THEN NamedFrom(input, ampIndex, end - 1, inAttribute)
  ELSE IF CharAt(input, end - 1) # ";" /\ inAttribute /\ IsAsciiAlnumOrEq(CharAt(input, end))
    THEN NamedFrom(input, ampIndex, end - 1, inAttribute)
  ELSE [value |-> (CHOOSE e \in HTML5_NAMED_ENTITIES :
                     e[1] = StrSlice(input, ampIndex + 1, end))[2],
        nextIndex |-> end, codePoint |-> 0 - 1, threw |-> FALSE]

\* decodeNamed without the test of the character behind the match
decodeNamedAnywhere(input, ampIndex, inAttribute) ==
  NamedFrom(input, ampIndex, Min2(Len(input), ampIndex + 1 + MAX_NAMED_ENTITY_LENGTH), FALSE)

\* decodeNamed
decodeNamed(input, ampIndex, inAttribute) ==
  NamedFrom(input, ampIndex, Min2(Len(input), ampIndex + 1 + MAX_NAMED_ENTITY_LENGTH),
            inAttribute)

\* decodeOne
decodeOne(input, ampIndex, inAttribute) ==
  IF CharAt(input, ampIndex + 1) = "" \/ IsSpace(CharAt(input, ampIndex + 1)) THEN NoReference
  ELSE IF CharAt(input, ampIndex + 1) = "#" THEN decodeNumeric(input, ampIndex, inAttribute)
  ELSE decodeNamed(input, ampIndex, inAttribute)

\* decodeCharacterReferences, from index i with `out` so far: the decoded
\* text, or that String.fromCodePoint threw
RECURSIVE DecodeFrom(_, _, _, _)

\* the `&` at i, with what decodeOne made of it (lines 25-33)
DecodeReference(input, i, out, inAttribute, decoded) ==
  IF decoded.threw THEN [out |-> out, threw |-> TRUE]
  ELSE IF decoded = NoReference THEN DecodeFrom(input, i + 1, Append(out, "&"), inAttribute)
  ELSE DecodeFrom(input, decoded.nextIndex, out \o decoded.value, inAttribute)

DecodeFrom(input, i, out, inAttribute) ==
  IF i >= Len(input) THEN [out |-> out, threw |-> FALSE]
  ELSE IF CharAt(input, i) # "&"
    THEN DecodeFrom(input, i + 1, Append(out, CharAt(input, i)), inAttribute)
  ELSE DecodeReference(input, i, out, inAttribute, decodeOne(input, i, inAttribute))

decodeCharacterReferences(value, inAttribute) == DecodeFrom(value, 0, <<>>, inAttribute)

\* a call of decodeCharacterReferences before its loop (lines 13-15)
InitialDecoder(value, inAttribute) ==
  [input |-> value, inAttribute |-> inAttribute, i |-> 0, out |-> <<>>,
   threw |-> FALSE, pc |-> "loop"]

\* no call of decodeCharacterReferences
IdleDecoder == [InitialDecoder(<<>>, FALSE) EXCEPT !.pc = "idle"]

\* the `&` at d.i, with what decodeOne made of it (lines 25-33)
DecodeApply(d, decoded) ==
  IF decoded.threw THEN [d EXCEPT !.threw = TRUE, !.pc = "done"]
  ELSE IF decoded = NoReference THEN [d EXCEPT !.out = Append(@, "&"), !.i = @ + 1]
  ELSE [d EXCEPT !.out = @ \o decoded.value, !.i = decoded.nextIndex]

\* one iteration of the loop of decodeCharacterReferences (lines 18-33)
DecodeIteration(d) ==
  IF CharAt(d.input, d.i) # "&"
    THEN [d EXCEPT !.out = Append(@, CharAt(d.input, d.i)), !.i = @ + 1]
    ELSE DecodeApply(d, decodeOne(d.input, d.i, d.inAttribute))

\* ------------------------------------------------------------------------
\* tokenizeHTML (tokenizer.js)
\* ------------------------------------------------------------------------
Gt == <<">">>

CommentOpen == <<"<", "!", "-", "-">>

CommentEnd == <<"-", "-", ">">>

CommentEndBang == <<"-", "-", "!", ">">>

DoctypeOpen == <<"<", "!", "d", "o", "c", "t", "y", "p", "e">>

ScriptName == <<"s", "c", "r", "i", "p", "t">>

TitleName == <<"t", "i", "t", "l", "e">>

TextareaName == <<"t", "e", "x", "t", "a", "r", "e", "a">>

ScriptStart == <<"<">> \o ScriptName

ScriptEnd == <<"<", "/">> \o ScriptName

\* shouldConsumeRawText
shouldConsumeRawText(tagName) ==
  tagName \in {ScriptName, TitleName, TextareaName,
               <<"s", "t", "y", "l", "e">>, <<"x", "m", "p">>,
               <<"i", "f", "r", "a", "m", "e">>, <<"n", "o", "e", "m", "b", "e", "d">>,
               <<"n", "o", "f", "r", "a", "m", "e", "s">>,
               <<"p", "l", "a", "i", "n", "t", "e", "x", "t">>}

\* shouldDecodeEntitiesInRaw
shouldDecodeEntitiesInRaw(tagName) == tagName \in {TextareaName, TitleName}

\* normalizeNewlines: \r\n and then \r become \n
RECURSIVE normalizeNewlines(_)
normalizeNewlines(value) ==
  IF value = <<>> THEN <<>>
  ELSE IF Head(value) = "\r"
    THEN <<"\n">> \o normalizeNewlines(IF Len(value) > 1 /\ value[2] = "\n"
                                        THEN SubSeq(value, 3, Len(value)) ELSE Tail(value))
  ELSE <<Head(value)>> \o normalizeNewlines(Tail(value))

\* tokens.push(token) with its pos
PushToken(t, token, pos) == [t EXCEPT !.tokens = Append(@, [token EXCEPT !.pos = pos])]

\* `break`
Break(t) == [t EXCEPT !.pc = "done"]

\* emitText: the push of the normalized text (lines 164-167)
PushText(t, normalized, pos) ==
  IF normalized.threw THEN [t EXCEPT !.pc = "crashed"]
  ELSE IF normalized.out = <<>> THEN t
  ELSE PushToken(t, TextTok(normalized.out), pos)

\* emitText
emitText(t, text, pos, preserveEntities) ==
  IF text = <<>> THEN t
  ELSE IF preserveEntities
    THEN PushText(t, [out |-> normalizeNewlines(text), threw |-> FALSE], pos)
  ELSE PushText(t, decodeCharacterReferences(normalizeNewlines(text), FALSE), pos)

\* isTagBoundary
isTagBoundary(text, index) == CharAt(text, index) \in {">", "/"} \cup Spaces

\* findTagCloseIndex: the loop from i with the open quote, if any
RECURSIVE TagCloseFrom(_, _, _)
TagCloseFrom(text, i, quote) ==
  IF i >= Len(text) THEN 0 - 1
  ELSE IF quote # "" THEN TagCloseFrom(text, i + 1, IF CharAt(text, i) = quote THEN "" ELSE quote)
  ELSE IF CharAt(text, i) \in {"\"", "'"} THEN TagCloseFrom(text, i + 1, CharAt(text, i))
  ELSE IF CharAt(text, i) = ">" THEN i
  ELSE TagCloseFrom(text, i + 1, "")

findTagCloseIndex(text, fromIndex) == TagCloseFrom(text, Max2(0, fromIndex), "")

\* findRawCloseIndex for the elements other than script: the loop from the
\* occurrence i of the needle
RECURSIVE RawCloseFrom(_, _, _)
RawCloseFrom(lowerHTML, needle, i) ==
  IF i < 0 THEN 0 - 1
  ELSE IF isTagBoundary(lowerHTML, i + Len(needle))
    THEN (IF StrIndexOf(lowerHTML, Gt, i + Len(needle)) >= 0 THEN i ELSE 0 - 1)
  ELSE RawCloseFrom(lowerHTML, needle, StrIndexOf(lowerHTML, needle, i + 1))

findRawCloseIndex(lowerHTML, offset, tagName) ==
  RawCloseFrom(lowerHTML, <<"<", "/">> \o tagName,
               StrIndexOf(lowerHTML, <<"<", "/">> \o tagName, offset))

\* parseComment: the comment token's data, the next index, eof
parseComment(html, start) ==
  LET bodyStart == start + 4
      endRegular == StrIndexOf(html, CommentEnd, bodyStart)
      endBang == StrIndexOf(html, CommentEndBang, bodyStart)
      regular == endRegular >= 0 /\ (endBang < 0 \/ endRegular < endBang)
      end == IF regular THEN endRegular ELSE endBang
  IN IF CharAt(html, bodyStart) = ">"
       THEN [data |-> <<>>, nextIndex |-> bodyStart + 1, eof |-> FALSE]
     ELSE IF StrStartsWith(html, <<"-", ">">>, bodyStart)
       THEN [data |-> <<>>, nextIndex |-> bodyStart + 2, eof |-> FALSE]
     ELSE IF end < 0
       THEN [data |-> Slice(html, bodyStart), nextIndex |-> Len(html), eof |-> TRUE]
     ELSE [data |-> StrSlice(html, bodyStart, end),
           nextIndex |-> end + (IF regular THEN 3 ELSE 4), eof |-> FALSE]

\* parseDoctype of a doctype without PUBLIC or SYSTEM: its name
DoctypeName(chunk) ==
  LET text == StrSlice(chunk, 9, Len(chunk) - 1)
      start == SkipWhile(text, 0, Spaces)
  IN StrToLowerCase(StrSlice(text, start, SkipUntil(text, start, Spaces)))

\* parseEndTag
parseEndTag(src) ==
  LET nameEnd == SkipWhile(src, 1, Range(UpperLetters) \cup Range(LowerLetters)
                                     \cup Range(Digits) \cup {":", "-"})
      name == StrToLowerCase(StrSlice(src, 1, nameEnd))
  IN IF CharAt(src, 0) # "/" THEN CommentTok(src)
     ELSE IF IsSpace(CharAt(src, 1)) THEN CommentTok(Slice(src, 1))
     ELSE IF name = <<>> THEN CommentTok(Slice(src, 1))
     ELSE EndTok(name)

HasKey(attrs, key) == \E a \in attrs : a[1] = key

\* the value of an attribute whose value starts at valueAt behind an `=`
\* (lines 248-266), and where the loop goes on
ReadValueAt(src, valueAt, end) ==
  IF CharAt(src, valueAt) \in {"\"", "'"}
    THEN [value |-> StrSlice(src, valueAt + 1, end),
          next |-> IF CharAt(src, end) = CharAt(src, valueAt) THEN end + 1 ELSE end]
    ELSE [value |-> StrSlice(src, valueAt, end), next |-> end]

ReadValue(src, valueAt) ==
  ReadValueAt(src, valueAt,
              IF CharAt(src, valueAt) \in {"\"", "'"}
                THEN SkipUntil(src, valueAt + 1, {CharAt(src, valueAt)})
                ELSE SkipUntil(src, valueAt, Spaces \cup {">"}))

\* the value of the attribute whose key is followed by src[afterKey], and
\* where the loop goes on (lines 241-267)
ReadAttrValue(src, afterKey) ==
  IF CharAt(src, afterKey) # "=" THEN [value |-> <<>>, next |-> afterKey]
  ELSE ReadValue(src, SkipWhile(src, afterKey + 1, Spaces))

RECURSIVE AttrLoop(_, _, _)

\* attrs[rawKey] is set unless the key is there already (lines 269-271)
StoreAttr(src, tag, rawKey, attr) ==
  IF HasKey(tag.attrs, rawKey) THEN AttrLoop(src, attr.next, tag)
  ELSE AttrLoop(src, attr.next,
                [tag EXCEPT !.attrs = @ \cup {<<rawKey, decodeCharacterReferences(attr.value, TRUE).out>>},
                            !.threw = decodeCharacterReferences(attr.value, TRUE).threw])

\* the attribute whose key starts at i and ends at keyEnd (lines 233-271)
AttrAt(src, i, keyEnd, tag) ==
  IF keyEnd = i THEN AttrLoop(src, i + 1, tag)
  ELSE StoreAttr(src, tag, StrToLowerCase(StrSlice(src, i, keyEnd)),
                 ReadAttrValue(src, SkipWhile(src, keyEnd, Spaces)))

\* the loop at i, the whitespace skipped (lines 219-271)
AttrLoopAt(src, i, tag) ==
  IF i >= Len(src) \/ tag.threw THEN tag
  ELSE IF CharAt(src, i) = "/"
    THEN AttrLoop(src, SkipWhile(src, i + 1, Spaces), [tag EXCEPT !.selfClosing = TRUE])
  ELSE AttrAt(src, i, SkipUntil(src, i, Spaces \cup {"=", ">", "/"}), tag)

\* parseStartTag: the loop over the attributes (lines 215-273)
AttrLoop(src, from, tag) == AttrLoopAt(src, SkipWhile(src, from, Spaces), tag)

\* parseStartTag from the start of the name on (lines 203-276)
StartTagNamed(src, nameStart, nameEnd) ==
  AttrLoop(src, nameEnd,
           [name |-> StrToLowerCase(StrSlice(src, nameStart, nameEnd)),
            attrs |-> NoAttrs, selfClosing |-> FALSE, threw |-> FALSE])

StartTagFrom(src, nameStart) ==
  StartTagNamed(src, nameStart, SkipUntil(src, nameStart, Spaces \cup {"/", ">"}))

\* parseStartTag; a result without a name stands for null
parseStartTag(src) == StartTagFrom(src, SkipWhile(src, 0, Spaces))

\* the state of findScriptRawCloseIndex before its loop
ScanFrom(offset) ==
  [i |-> offset, scriptDataEscaped |-> FALSE, scriptDataDoubleEscaped |-> FALSE,
   returned |-> FALSE, closeIdx |-> 0 - 1]

ScanReturn(s, idx) == [s EXCEPT !.returned = TRUE, !.closeIdx = idx]

\* `</script` outside the double-escaped region with the `>` of the tag at
\* end: skipped behind a `<script/` that is still open, returned otherwise
ScanEndTagAt(s, lastScriptStart, lastTagClose, lastScriptAfter, end) ==
  IF s.scriptDataEscaped /\ lastScriptStart > lastTagClose /\ lastScriptAfter = "/"
    THEN (IF end < 0 THEN ScanReturn(s, 0 - 1) ELSE [s EXCEPT !.i = end + 1])
  ELSE IF end >= 0 THEN ScanReturn(s, s.i)
  ELSE ScanReturn(s, 0 - 1)

ScanEndTagAfter(s, lowerHTML, lastScriptStart) ==
  ScanEndTagAt(s, lastScriptStart, StrLastIndexOf(lowerHTML, Gt, s.i),
               IF lastScriptStart >= 0 THEN CharAt(lowerHTML, lastScriptStart + 7) ELSE "",
               findTagCloseIndex(lowerHTML, s.i + 8))

\* the branch for `</script` outside the double-escaped region (lines 374-391)
ScanEndTag(s, lowerHTML) ==
  ScanEndTagAfter(s, lowerHTML, StrLastIndexOf(lowerHTML, ScriptStart, s.i))

\* the scan stays where it is
ScanSkipStays(s) == s

\* no branch applies: i += 1 (line 393)
ScanSkip(s) == [s EXCEPT !.i = @ + 1]

\* one iteration of the loop that takes `</script` in the double-escaped
\* region for the end of the script
ScanIterationClosesInside(s, lowerHTML) ==
  IF StrStartsWith(lowerHTML, ScriptEnd, s.i) /\ isTagBoundary(lowerHTML, s.i + 8)
    THEN ScanEndTag(s, lowerHTML)
  ELSE IF ~s.scriptDataEscaped /\ StrStartsWith(lowerHTML, CommentOpen, s.i)
    THEN [s EXCEPT !.scriptDataEscaped = TRUE, !.i = @ + 4]
  ELSE IF /\ s.scriptDataEscaped /\ ~s.scriptDataDoubleEscaped
          /\ StrStartsWith(lowerHTML, ScriptStart, s.i) /\ isTagBoundary(lowerHTML, s.i + 7)
    THEN (IF findTagCloseIndex(lowerHTML, s.i + 7) < 0 THEN ScanReturn(s, 0 - 1)
          ELSE [s EXCEPT !.scriptDataDoubleEscaped = TRUE,
                         !.i = findTagCloseIndex(lowerHTML, s.i + 7) + 1])
  ELSE IF s.scriptDataDoubleEscaped /\ StrStartsWith(lowerHTML, CommentEnd, s.i)
    THEN [s EXCEPT !.scriptDataDoubleEscaped = FALSE, !.i = @ + 3]
  ELSE ScanSkip(s)

\* one iteration of the loop of findScriptRawCloseIndex (lines 342-393)
ScanIteration(s, lowerHTML) ==
  IF ~s.scriptDataEscaped /\ StrStartsWith(lowerHTML, CommentOpen, s.i)
    THEN [s EXCEPT !.scriptDataEscaped = TRUE, !.i = @ + 4]
  ELSE IF /\ s.scriptDataEscaped /\ ~s.scriptDataDoubleEscaped
          /\ StrStartsWith(lowerHTML, ScriptStart, s.i) /\ isTagBoundary(lowerHTML, s.i + 7)
    THEN (IF findTagCloseIndex(lowerHTML, s.i + 7) < 0 THEN ScanReturn(s, 0 - 1)
          ELSE [s EXCEPT !.scriptDataDoubleEscaped = TRUE,
                         !.i = findTagCloseIndex(lowerHTML, s.i + 7) + 1])
  ELSE IF /\ s.scriptDataDoubleEscaped
          /\ StrStartsWith(lowerHTML, ScriptEnd, s.i) /\ isTagBoundary(lowerHTML, s.i + 8)
    THEN (IF findTagCloseIndex(lowerHTML, s.i + 8) < 0 THEN ScanReturn(s, 0 - 1)
          ELSE [s EXCEPT !.scriptDataDoubleEscaped = FALSE,
                         !.i = findTagCloseIndex(lowerHTML, s.i + 8) + 1])
  ELSE IF s.scriptDataDoubleEscaped /\ StrStartsWith(lowerHTML, CommentEnd, s.i)
    THEN [s EXCEPT !.scriptDataDoubleEscaped = FALSE, !.i = @ + 3]
  ELSE IF /\ ~s.scriptDataDoubleEscaped
          /\ StrStartsWith(lowerHTML, ScriptEnd, s.i) /\ isTagBoundary(lowerHTML, s.i + 8)
    THEN ScanEndTag(s, lowerHTML)
  ELSE ScanSkip(s)

\* the raw-text branch after the text: the end tag, and the index behind its
\* `>` at closeEnd (lines 144-149)
RawTextEndTag(e, name, closeIdx, closeEnd) ==
  IF closeEnd < 0 THEN Break(PushToken(e, EndTok(name), closeIdx))
  ELSE [PushToken(e, EndTok(name), closeIdx) EXCEPT !.i = closeEnd + 1, !.pc = "loop"]

\* the raw-text branch after emitText (lines 136-149)
RawTextAfterText(e, name, closeIdx) ==
  IF e.pc = "crashed" THEN e
  ELSE IF closeIdx < 0
    THEN Break([e EXCEPT !.errors = emitError(@, e.collectErrors,
                                              "expected-closing-tag-but-got-eof", e.i, e.html)])
  ELSE RawTextEndTag(e, name, closeIdx, findTagCloseIndex(e.html, closeIdx + 2 + Len(name)))

\* the raw-text branch once the closing index is known (lines 131-149)
RawTextClose(t, name, closeIdx) ==
  RawTextAfterText(emitText(t, IF closeIdx < 0 THEN Slice(t.html, t.i)
                               ELSE StrSlice(t.html, t.i, closeIdx),
                            t.i, ~shouldDecodeEntitiesInRaw(name)),
                   name, closeIdx)

\* after the start tag has been pushed (lines 129-130): the script scan
\* starts, the other raw-text elements are closed, anything else loops
AfterStartTag(t, parsed) ==
  IF parsed.selfClosing \/ ~shouldConsumeRawText(parsed.name) THEN t
  ELSE IF parsed.name = ScriptName
    THEN [t EXCEPT !.pc = "script", !.scan = ScanFrom(t.i)]
  ELSE RawTextClose(t, parsed.name, findRawCloseIndex(StrToLowerCase(t.html), t.i, parsed.name))

\* a start tag (lines 119-128)
StartTagAt(t, lt, end, parsed) ==
  IF parsed.threw THEN [t EXCEPT !.pc = "crashed"]
  ELSE IF parsed.name = <<>>
    THEN [emitText(t, StrSlice(t.html, lt, end + 1), lt, FALSE) EXCEPT !.i = end + 1]
  ELSE AfterStartTag([PushToken(t, StartTok(parsed.name, parsed.attrs, parsed.selfClosing), lt)
                        EXCEPT !.i = end + 1], parsed)

\* a tag that is kept as text, or an end tag (lines 97-117)
TextOrEndTagAt(t, lt, end, rawInner, asText) ==
  IF asText THEN [emitText(t, StrSlice(t.html, lt, end + 1), lt, FALSE) EXCEPT !.i = end + 1]
  ELSE [PushToken(t, parseEndTag(rawInner), lt) EXCEPT !.i = end + 1]

\* a tag with its `>` at end, rawTag its inside trimmed (lines 85-128)
TagWith(t, lt, end, rawInner, rawTag) ==
  IF rawTag = <<>> THEN [t EXCEPT !.i = end + 1]
  ELSE IF Head(rawTag) = "?" THEN [PushToken(t, CommentTok(rawTag), lt) EXCEPT !.i = end + 1]
  ELSE IF Head(rawTag) \in {"!", "/"}
    THEN TextOrEndTagAt(t, lt, end, rawInner, Head(rawTag) = "!" \/ IsSpace(Head(rawInner)))
  ELSE StartTagAt(t, lt, end, parseStartTag(rawInner))

\* a tag with its `>` at end (lines 85-128)
TagAt(t, lt, end) ==
  TagWith(t, lt, end, StrSlice(t.html, lt + 1, end), Trim(StrSlice(t.html, lt + 1, end)))

\* a `<` with no `>` after it (lines 76-82)
UnclosedAt(t, lt) ==
  IF StrStartsWith(t.html, <<"<", "?">>, lt)
    THEN Break(PushToken(t, CommentTok(Slice(t.html, lt + 1)), lt))
    ELSE Break([t EXCEPT !.errors = emitError(@, t.collectErrors, "eof-in-tag", lt, t.html)])

\* the markup at lt (lines 29-128)
MarkupAt(t, lt) ==
  LET comment == parseComment(t.html, lt)
      doctypeEnd == StrIndexOf(t.html, Gt, lt + 2)
      cdataEnd == StrIndexOf(t.html, <<"]", "]", ">">>, lt + 9)
      end == StrIndexOf(t.html, Gt, lt + 1)
  IN IF StrStartsWith(t.html, CommentOpen, lt) THEN
       (IF comment.eof
          THEN Break([PushToken(t, CommentTok(comment.data), lt)
                        EXCEPT !.i = comment.nextIndex,
                               !.errors = emitError(@, t.collectErrors, "eof-in-comment", lt, t.html)])
          ELSE [PushToken(t, CommentTok(comment.data), lt) EXCEPT !.i = comment.nextIndex])
     ELSE IF StrToLowerCase(StrSlice(t.html, lt, lt + 9)) = DoctypeOpen THEN
       (IF doctypeEnd < 0
          THEN Break([t EXCEPT !.errors = emitError(@, t.collectErrors, "eof-in-doctype", lt, t.html)])
          ELSE [PushToken(t, DoctypeTok(DoctypeName(StrSlice(t.html, lt, doctypeEnd + 1)), "", ""), lt)
                  EXCEPT !.i = doctypeEnd + 1])
     ELSE IF StrStartsWith(t.html, <<"<", "!">> \o CDataOpen, lt) THEN
       (IF cdataEnd < 0
          THEN Break(PushToken(t, CommentTok(CDataOpen \o Slice(t.html, lt + 9)), lt))
          ELSE [PushToken(t, CommentTok(CDataOpen \o StrSlice(t.html, lt + 9, cdataEnd) \o CDataClose), lt)
                  EXCEPT !.i = cdataEnd + 3])
     ELSE IF StrStartsWith(t.html, <<"<", "!">>, lt) THEN
       (IF doctypeEnd < 0
          THEN Break(PushToken(t, CommentTok(Slice(t.html, lt + 2)), lt))
          ELSE [PushToken(t, CommentTok(ReplaceAll(StrSlice(t.html, lt + 2, doctypeEnd), NUL, FFFD)), lt)
                  EXCEPT !.i = doctypeEnd + 1])
     ELSE IF end < 0 THEN UnclosedAt(t, lt)
     ELSE TagAt(t, lt, end)

\* the iteration after its text: `break` when there was no `<` (lines 20-128)
AfterText(text, lt) ==
  IF text.pc = "crashed" THEN text
  ELSE IF lt < 0 THEN Break(text)
  ELSE MarkupAt(text, lt)

\* the iteration with lt known (lines 20-128)
IterationAt(t, lt) ==
  AfterText(emitText(t, IF lt < 0 THEN Slice(t.html, t.i) ELSE StrSlice(t.html, t.i, lt),
                     t.i, FALSE),
            lt)

\* one iteration of the loop of tokenizeHTML (lines 18-150), up to the
\* script scan
TokenizeIteration(t) == IterationAt(t, StrIndexOf(t.html, <<"<">>, t.i))

\* tokenizeHTML before its loop; `iterations` counts the iterations of its
\* loop and of the loop of findScriptRawCloseIndex
InitialTokenizer(html, collectErrors) ==
  [html |-> html, collectErrors |-> collectErrors, i |-> 0, tokens |-> <<>>, errors |-> <<>>,
   pc |-> "loop", scan |-> ScanFrom(0), iterations |-> 0]

\* no tokenizer is running
IdleTokenizer == [InitialTokenizer(<<>>, FALSE) EXCEPT !.pc = "idle"]

\* a call decodeNumeric(input, 0, inAttribute) about to be made: the input is
\* "&#", an "x" for radix 16, the digits and what follows them
NumericReference(digits, radix, follow, inAttribute) ==
  [input |-> <<"&", "#">> \o (IF radix = 16 THEN <<"x">> ELSE <<>>) \o digits \o follow,
   digits |-> digits, radix |-> radix, inAttribute |-> inAttribute,
   pc |-> "ready", result |-> NoReference]

\* no call of the decoder
IdleReference == [NumericReference(<<>>, 10, <<>>, FALSE) EXCEPT !.pc = "idle"]

\* ------------------------------------------------------------------------
\* stream(): the token loop of the event generator (stream.js)
\* ------------------------------------------------------------------------
Event(kind, name, attrs, data) == [kind |-> kind, name |-> name, attrs |-> attrs, data |-> data]

\* let textBuffer = ""; nothing yielded yet; `tokens` is what the loop has
\* taken from the token array so far
InitialStream == [textBuffer |-> <<>>, events |-> <<>>, tokens |-> <<>>]

\* if (textBuffer) { yield ["text", textBuffer]; textBuffer = ""; }
StreamFlush(s) ==
  IF s.textBuffer # <<>>
    THEN [s EXCEPT !.events = Append(@, Event("text", "", NoAttrs, s.textBuffer)),
                   !.textBuffer = <<>>]
    ELSE s

\* the yields of a token that is not text (lines 19-40)
StreamYield(s, tok) ==
  IF tok.kind = "start_tag" THEN
    [s EXCEPT !.events = @ \o <<Event("start", tok.name, tok.attrs, <<>>)>>
                           \o (IF tok.selfClosing
                                 THEN <<Event("end", tok.name, NoAttrs, <<>>)>> ELSE <<>>)]
  ELSE IF tok.kind = "end_tag" THEN
    [s EXCEPT !.events = Append(@, Event("end", tok.name, NoAttrs, <<>>))]
  ELSE IF tok.kind = "comment" THEN
    [s EXCEPT !.events = Append(@, Event("comment", "", NoAttrs, tok.data))]
  ELSE IF tok.kind = "doctype" THEN
    [s EXCEPT !.events = Append(@, Event("doctype", IF tok.name = "" THEN "html" ELSE tok.name,
                                         NoAttrs, <<>>))]
  ELSE s

\* one iteration of the loop with every text token yielded at once
StreamTokenUnbuffered(s, tok) ==
  IF tok.kind = "text"
    THEN [s EXCEPT !.events = Append(@, Event("text", "", NoAttrs, tok.data)),
                   !.tokens = Append(@, tok)]
    ELSE StreamYield([s EXCEPT !.tokens = Append(@, tok)], tok)

\* one iteration of the loop (lines 9-41)
StreamToken(s, tok) ==
  IF tok.kind = "text"
    THEN [s EXCEPT !.textBuffer = @ \o tok.data, !.tokens = Append(@, tok)]
    ELSE StreamYield(StreamFlush([s EXCEPT !.tokens = Append(@, tok)]), tok)

\* after the loop (lines 43-45)
StreamEnd(s) == StreamFlush(s)

\* ------------------------------------------------------------------------
\* State
\* ------------------------------------------------------------------------
VARIABLES
  options,       \* the options given to the JustHTML constructor
  alphabet,      \* the token alphabet of this run
  html,          \* the source text
  consumed,      \* how many tokens buildTree has consumed
  pc,            \* "building", "built", "returned", "strict-error" or "crashed"
  nodes,         \* the node arena; nodes[Root] is the root
  stack,         \* the open-elements stack
  documentElement,
  headElement,
  bodyElement,
  seenDoctype,
  afterBody,
  framesetOk,
  fragmentRootNamespaceOverride,
  closePOnTable,
  treeErrors,    \* the errors array of buildTree
  tokenizerErrors, \* the errors array of tokenizeHTML
  errors,        \* this.errors of the constructed JustHTML
  thrown,        \* the error wrapped by the StrictModeError thrown, if any
  result,        \* the root the caller of the constructor receives, if any
  lastToken,     \* the token consumed last
  requested,     \* the element names the consumed tokens ask for
  reference,     \* the same parse with collectErrors on, run in lockstep
  stream,        \* stream() on the same tokens: its buffer and what it has yielded
  tz,            \* a run of tokenizeHTML: its input, index, tokens, errors, script scan
  charRef,       \* a call of decodeNumeric: its input and its result
  decoder        \* a call of decodeCharacterReferences: its input, index and output

builderVars ==
  <<nodes, stack, documentElement, headElement, bodyElement, seenDoctype, afterBody,
    framesetOk, fragmentRootNamespaceOverride, closePOnTable, treeErrors>>

inputVars == <<options, alphabet, html>>

vars ==
  <<inputVars, consumed, pc, builderVars, tokenizerErrors, errors, thrown, result,
    lastToken, requested, reference, stream, tz, charRef, decoder>>

parserVars ==
  <<inputVars, consumed, pc, builderVars, tokenizerErrors, errors, thrown, result,
    lastToken, requested, reference, stream>>

\* the builder's state as one record
B ==
  [nodes |-> nodes, stack |-> stack, documentElement |-> documentElement,
   headElement |-> headElement, bodyElement |-> bodyElement, seenDoctype |-> seenDoctype,
   afterBody |-> afterBody, framesetOk |-> framesetOk,
   fragmentRootNamespaceOverride |-> fragmentRootNamespaceOverride,
   closePOnTable |-> closePOnTable, errors |-> treeErrors, threw |-> FALSE,
   parent |-> NULL, reopenInsideNewElement |-> <<>>,
   trackNodeLocations |-> options.trackNodeLocations]

\* the state at the top of buildTree (lines 60-74)
InitialBuilder(o) ==
  [nodes |-> <<IF o.fragment THEN DocumentFragment ELSE Document>>,
   stack |-> <<Root>>, documentElement |-> NULL, headElement |-> NULL,
   bodyElement |-> NULL, seenDoctype |-> FALSE, afterBody |-> FALSE, framesetOk |-> TRUE,
   fragmentRootNamespaceOverride |-> NoNamespace, closePOnTable |-> FALSE,
   errors |-> <<>>, threw |-> FALSE, parent |-> NULL, reopenInsideNewElement |-> <<>>,
   trackNodeLocations |-> o.trackNodeLocations]

SetBuilder(r) ==
  /\ nodes' = r.nodes
  /\ stack' = r.stack
  /\ documentElement' = r.documentElement
  /\ headElement' = r.headElement
  /\ bodyElement' = r.bodyElement
  /\ seenDoctype' = r.seenDoctype
  /\ afterBody' = r.afterBody
  /\ framesetOk' = r.framesetOk
  /\ fragmentRootNamespaceOverride' = r.fragmentRootNamespaceOverride
  /\ closePOnTable' = r.closePOnTable
  /\ treeErrors' = r.errors

\* "no error": the constructor threw nothing
NoError == ParseError("none", "", "", NULL, NULL)

\* the options of the reference parse: the same, with collectErrors on
ReferenceOptions == BuildOptions([options EXCEPT !.collectErrors = TRUE])

\* the state of the constructor at `position` for one run (options, alphabet)
\* of runSet: "building" is the call of buildTree with both errors arrays
\* empty, "built" its return with the errors arrays the two lists give
InitWith(runSet, position, tokenizerLists, treeLists) ==
  /\ \E run \in runSet :
       /\ options = run[1]
       /\ alphabet = run[2]
  /\ html = HtmlText
  /\ consumed = 0
  /\ pc = position
  /\ tokenizerErrors \in tokenizerLists
  /\ treeErrors \in treeLists
  /\ LET r == [InitialBuilder(BuildOptions(options)) EXCEPT !.errors = treeErrors] IN
       /\ nodes = r.nodes
       /\ stack = r.stack
       /\ documentElement = r.documentElement
       /\ headElement = r.headElement
       /\ bodyElement = r.bodyElement
       /\ seenDoctype = r.seenDoctype
       /\ afterBody = r.afterBody
       /\ framesetOk = r.framesetOk
       /\ fragmentRootNamespaceOverride = r.fragmentRootNamespaceOverride
       /\ closePOnTable = r.closePOnTable
       /\ reference = [b |-> r, tokenized |-> tokenizerErrors, errors |-> <<>>]
  /\ errors = <<>>
  /\ thrown = NoError
  /\ result = NULL
  /\ lastToken = TextTok(<<>>)
  /\ requested = {}
  /\ stream = InitialStream

DocumentOptions == Options(FALSE, NoContext, TRUE, FALSE)

FragmentOptions(c) == Options(TRUE, c, TRUE, FALSE)

\* the same options with trackNodeLocations on
Tracking(o) == [o EXCEPT !.trackNodeLocations = TRUE]

\* the runs of the tree-builder specification: errors collected, not strict
Runs ==
  {<<DocumentOptions, a>> : a \in {"scaffold", "table", "formatting", "foreign", "lists"}}
    \cup {<<FragmentOptions(NoContext), a>> : a \in {"scaffold", "formatting"}}
    \cup {<<FragmentOptions(c), "foreign">> :
            c \in {x \in FragmentContexts : x.namespace # NoNamespace}}
    \cup {<<FragmentOptions(c), "lists">> :
            c \in {x \in FragmentContexts : x.namespace = NoNamespace}}
    \cup {<<Tracking(DocumentOptions), a>> : a \in {"scaffold", "table", "formatting"}}
    \cup {<<Tracking(FragmentOptions(NoContext)), "formatting">>}
    \cup {<<DocumentOptions, a>> : a \in {"rows", "blocks", "inline"}}

\* neither the tokenizer nor the decoder is running on its own
NoScan == tz = IdleTokenizer /\ charRef = IdleReference /\ decoder = IdleDecoder

Init == InitWith(Runs, "building", {<<>>}, {<<>>}) /\ NoScan

\* the runs of the error-handling specification: every combination of
\* collectErrors and strict, document and fragment mode
StrictRuns ==
  {<<Options(f, NoContext, c, s), "errors">> : f \in BOOLEAN, c \in BOOLEAN, s \in BOOLEAN}

InitStrict == InitWith(StrictRuns, "building", {<<>>}, {<<>>}) /\ NoScan

\* ------------------------------------------------------------------------
\* Actions: one per token kind of the loop of buildTree, one for the end of
\* the token stream, one for the rest of the constructor
\* ------------------------------------------------------------------------
\* the element names a token asks for
Requests(tok) ==
  IF tok.kind = "start_tag" THEN {ToLowerCase(tok.name)}
  ELSE IF tok.kind = "end_tag" /\ tok.name \in {"br", "p"} THEN {tok.name}
  ELSE {}

\* the token stream hands the next token over; r is what the handler makes
\* of the builder, ref what it makes of the reference builder
Consume(tok, r, ref) ==
  /\ consumed' = consumed + 1
  /\ lastToken' = tok
  /\ requested' = requested \cup Requests(tok)
  /\ SetBuilder(r)
  /\ reference' = [reference EXCEPT !.b = ref]
  /\ stream' = StreamToken(stream, tok)
  /\ pc' = IF r.threw THEN "crashed" ELSE "building"
  /\ UNCHANGED <<inputVars, tokenizerErrors, errors, thrown, result, tz, charRef, decoder>>

\* the runs on the two small alphabets are one token longer
MaxRowTokens == 4

TokenLimit == IF alphabet \in {"rows", "inline"} THEN MaxRowTokens ELSE MaxTokens

CanConsume == pc = "building" /\ consumed < TokenLimit

\* a token's pos is its offset in the source text
At0(tok) == [tok EXCEPT !.pos = consumed]

DoctypeToken ==
  /\ CanConsume
  /\ \E t \in Alphabets[alphabet].doctype :
       Consume(At0(t), OnDoctype(B, BuildOptions(options), At0(t)),
               OnDoctype(reference.b, ReferenceOptions, At0(t)))

CommentToken ==
  /\ CanConsume
  /\ \E d \in Alphabets[alphabet].comment :
       Consume(At0(CommentTok(d)), OnComment(B, BuildOptions(options), At0(CommentTok(d))),
               OnComment(reference.b, ReferenceOptions, At0(CommentTok(d))))

TextToken ==
  /\ CanConsume
  /\ \E d \in Alphabets[alphabet].text :
       Consume(At0(TextTok(d)), OnText(B, BuildOptions(options), At0(TextTok(d))),
               OnText(reference.b, ReferenceOptions, At0(TextTok(d))))

StartTagToken ==
  /\ CanConsume
  /\ \E t \in Alphabets[alphabet].start :
       Consume(At0(t), OnStartTag(B, BuildOptions(options), At0(t)),
               OnStartTag(reference.b, ReferenceOptions, At0(t)))

EndTagToken ==
  /\ CanConsume
  /\ \E n \in Alphabets[alphabet].end :
       Consume(At0(EndTok(n)), OnEndTag(B, BuildOptions(options), At0(EndTok(n)), html),
               OnEndTag(reference.b, ReferenceOptions, At0(EndTok(n)), html))

\* what stopped the tokenizer: the end of the text, or an emitError site
TokenizerStops == {"", "eof-in-tag"}

\* the errors array of tokenizeHTML: at most one emitError call, at the
\* offset where the token stream stopped
Tokenized(stop, collectErrors) ==
  IF stop = "" THEN <<>> ELSE emitError(<<>>, collectErrors, stop, consumed, html)

\* the token stream ends: the rest of buildTree (lines 625-646)
EndOfTokens ==
  /\ pc = "building"
  /\ LET r == Finish(B, BuildOptions(options), html) IN
       /\ SetBuilder(r)
       /\ pc' = IF r.threw THEN "crashed" ELSE "built"
  /\ \E stop \in TokenizerStops :
       /\ tokenizerErrors' = Tokenized(stop, BuildOptions(options).collectErrors)
       /\ reference' = [reference EXCEPT
                          !.b = Finish(reference.b, ReferenceOptions, html),
                          !.tokenized = Tokenized(stop, ReferenceOptions.collectErrors)]
  /\ stream' = StreamEnd(stream)
  /\ UNCHANGED <<inputVars, consumed, errors, thrown, result, lastToken, requested,
                 tz, charRef, decoder>>

\* the rest of the JustHTML constructor (lines 33-38): sortErrors, then the
\* strict-mode throw or the return
Construct ==
  /\ pc = "built"
  /\ errors' = sortErrors(tokenizerErrors \o treeErrors)
  /\ reference' = [reference EXCEPT !.errors = sortErrors(reference.tokenized \o reference.b.errors)]
  /\ IF options.strict /\ Len(errors') > 0
       THEN /\ pc' = "strict-error"
            /\ thrown' = errors'[1]
            /\ result' = NULL
       ELSE /\ pc' = "returned"
            /\ thrown' = NoError
            /\ result' = Root
  /\ UNCHANGED <<inputVars, consumed, builderVars, tokenizerErrors, lastToken, requested,
                 stream, tz, charRef, decoder>>

Next ==
  \/ DoctypeToken
  \/ CommentToken
  \/ TextToken
  \/ StartTagToken
  \/ EndTagToken
  \/ EndOfTokens
  \/ Construct

\* the tree builder on every token sequence, errors collected, not strict
Spec == Init /\ [][Next]_vars

\* the same program under every combination of collectErrors and strict
SpecStrict == InitStrict /\ [][Next]_vars

\* ------------------------------------------------------------------------
\* sortErrors on every pair of short errors arrays
\* ------------------------------------------------------------------------
MaxErrors == 2

\* the errors of one category: every known or unknown line and column
ErrorsOf(category, abouts) ==
  {ParseError(category, "parse-error", a, l, c) : a \in abouts, l \in {1, NULL}, c \in {1, 2, NULL}}

ErrorLists(S) == UNION {[1..n -> S] : n \in 0..MaxErrors}

SortRuns == {<<Options(FALSE, NoContext, TRUE, s), "errors">> : s \in BOOLEAN}

InitSort ==
  /\ InitWith(SortRuns, "built", ErrorLists(ErrorsOf("tokenizer", {""})),
              ErrorLists(ErrorsOf("treebuilder", {"x", "y"})))
  /\ NoScan

NextSort == Construct

\* the constructor from the return of buildTree on, on any two errors arrays
SpecSort == InitSort /\ [][NextSort]_vars

\* ------------------------------------------------------------------------
\* tokenizeHTML on its own: the inputs are made of pieces of markup
\* ------------------------------------------------------------------------
MaxChunks == 4

\* eight U+0130: as many as `</title>` has characters, so that behind them
\* the index of `</title>` in lowerHTML is behind the tag in html
DottedRun == <<DottedI, DottedI, DottedI, DottedI, DottedI, DottedI, DottedI, DottedI>>

HtmlChunks ==
  {<<"<">> \o ScriptName \o Gt, ScriptEnd \o Gt, ScriptEnd \o <<" ", "\"">>,
   CommentOpen, CommentOpen \o ScriptStart \o Gt, CommentEnd, <<"<">> \o TitleName \o Gt, <<"<", "/">> \o TitleName \o Gt,
   <<"&", "a", "m", "p", ";">>, <<"a">>, <<"<", "b">>, <<"\r">>, Gt,
   <<"<", "!">> \o CDataOpen \o <<"]", "]">>, <<"<", "!", "x">>, DottedRun}

\* the texts made of at most n chunks
RECURSIVE HtmlInputs(_)
HtmlInputs(n) ==
  IF n = 0 THEN {<<>>}
  ELSE HtmlInputs(n - 1) \cup {h \o c : h \in HtmlInputs(n - 1), c \in HtmlChunks}

\* the parser's variables when no parse is running
ParserIdle == InitWith({<<DocumentOptions, "scaffold">>}, "idle", {<<>>}, {<<>>})

InitTokenizer ==
  /\ ParserIdle
  /\ charRef = IdleReference
  /\ decoder = IdleDecoder
  /\ tz = [IdleTokenizer EXCEPT !.pc = "called"]

\* tokenizeHTML(html, {collectErrors: true}) is called on one of the texts
TokenizeCall ==
  /\ tz.pc = "called"
  /\ \E text \in HtmlInputs(MaxChunks) : tz' = InitialTokenizer(text, TRUE)
  /\ UNCHANGED <<parserVars, charRef, decoder>>

\* the tokenizer with the scan after one more iteration of its loop
ScanResult(t, s) ==
  IF s.returned THEN RawTextClose([t EXCEPT !.scan = s], ScriptName, s.closeIdx)
  ELSE [t EXCEPT !.scan = s]

\* one iteration of the loop of tokenizeHTML
TokenizeStep ==
  /\ tz.pc = "loop"
  /\ tz.i < Len(tz.html)
  /\ tz' = [TokenizeIteration(tz) EXCEPT !.iterations = @ + 1]
  /\ UNCHANGED <<parserVars, charRef, decoder>>

\* the loop condition fails: return {tokens, errors}
TokenizeReturn ==
  /\ tz.pc = "loop"
  /\ tz.i >= Len(tz.html)
  /\ tz' = Break(tz)
  /\ UNCHANGED <<parserVars, charRef, decoder>>

\* one iteration of the loop of findScriptRawCloseIndex; when it returns, the
\* raw-text branch of tokenizeHTML goes on with the index returned
ScanStep ==
  /\ tz.pc = "script"
  /\ tz.scan.i < Len(StrToLowerCase(tz.html))
  /\ tz' = [ScanResult(tz, ScanIteration(tz.scan, StrToLowerCase(tz.html)))
             EXCEPT !.iterations = @ + 1]
  /\ UNCHANGED <<parserVars, charRef, decoder>>

\* the loop of findScriptRawCloseIndex reaches the end of the text: return -1
ScanEnd ==
  /\ tz.pc = "script"
  /\ tz.scan.i >= Len(StrToLowerCase(tz.html))
  /\ tz' = RawTextClose([tz EXCEPT !.scan = ScanReturn(tz.scan, 0 - 1)], ScriptName, 0 - 1)
  /\ UNCHANGED <<parserVars, charRef, decoder>>

NextTokenizer == TokenizeCall \/ TokenizeStep \/ TokenizeReturn \/ ScanStep \/ ScanEnd

SpecTokenizer == InitTokenizer /\ [][NextTokenizer]_vars

\* ------------------------------------------------------------------------
\* Calls of decodeNumeric on `&#` and `&#x` references
\* ------------------------------------------------------------------------
\* the longest run of characters drawn one by one
MaxDigits == 5

DigitAlphabet == {"0", "1", "8", "d", "f"}

\* runs at the edges of the surrogates, in upper case, and runs too long to
\* be parsed exactly (17 digits) or to be finite (310 digits)
EdgeRuns ==
  {<<"d", "7", "f", "f">>, <<"e", "0", "0", "0">>, <<"D", "8", "0", "0">>,
   <<"5", "5", "2", "9", "6">>, [k \in 1..17 |-> "9"], [k \in 1..310 |-> "9"]}

DigitRuns == UNION {[1..n -> DigitAlphabet] : n \in 0..MaxDigits} \cup EdgeRuns

\* what follows the digits
Follows == {<<>>, <<";">>, <<"=">>}

\* decodeNumeric is called on a reference
NumericCall ==
  /\ charRef.pc = "idle"
  /\ \E digits \in DigitRuns, radix \in {10, 16}, follow \in Follows, inAttribute \in BOOLEAN :
       charRef' = NumericReference(digits, radix, follow, inAttribute)
  /\ UNCHANGED <<parserVars, tz, decoder>>

\* decodeNumeric returns
NumericReturn ==
  /\ charRef.pc = "ready"
  /\ charRef' = [charRef EXCEPT !.pc = "decoded",
                                !.result = decodeNumeric(charRef.input, 0, charRef.inAttribute)]
  /\ UNCHANGED <<parserVars, tz, decoder>>

InitNumeric ==
  ParserIdle /\ tz = IdleTokenizer /\ charRef = IdleReference /\ decoder = IdleDecoder

NextNumeric == NumericCall \/ NumericReturn

SpecNumeric == InitNumeric /\ [][NextNumeric]_vars

\* ------------------------------------------------------------------------
\* Calls of decodeCharacterReferences
\* ------------------------------------------------------------------------
\* the number of pieces of a text
MaxPieces == 4

TextPieces ==
  {<<"&">>, <<"a", "m", "p">>, <<"n", "o", "t">>, <<"i", "n">>, <<"l", "t">>,
   <<";">>, <<"=">>, <<" ">>, <<"#", "3", "8">>}

RECURSIVE TextsOf(_)
TextsOf(n) ==
  IF n = 0 THEN {<<>>} ELSE {t \o piece : t \in TextsOf(n - 1), piece \in TextPieces \cup {<<>>}}

\* decodeCharacterReferences is called
DecodeCall ==
  /\ decoder.pc = "idle"
  /\ \E value \in TextsOf(MaxPieces), inAttribute \in BOOLEAN :
       decoder' = InitialDecoder(value, inAttribute)
  /\ UNCHANGED <<parserVars, tz, charRef>>

\* one iteration of the loop
DecodeStep ==
  /\ decoder.pc = "loop"
  /\ decoder.i < Len(decoder.input)
  /\ decoder' = DecodeIteration(decoder)
  /\ UNCHANGED <<parserVars, tz, charRef>>

\* the loop condition fails: return out
DecodeReturn ==
  /\ decoder.pc = "loop"
  /\ decoder.i >= Len(decoder.input)
  /\ decoder' = [decoder EXCEPT !.pc = "done"]
  /\ UNCHANGED <<parserVars, tz, charRef>>

InitDecoder ==
  ParserIdle /\ tz = IdleTokenizer /\ charRef = IdleReference /\ decoder = IdleDecoder

NextDecoder == DecodeCall \/ DecodeStep \/ DecodeReturn

SpecDecoder == InitDecoder /\ [][NextDecoder]_vars

\* ------------------------------------------------------------------------
\* The output tree
\* ------------------------------------------------------------------------
NodeIds == 1..Len(nodes)

ChildIds(p) == {nodes[p].children[i] : i \in 1..Len(nodes[p].children)}

RECURSIVE ReachFrom(_)
ReachFrom(S) ==
  LET more == S \cup UNION {ChildIds(p) : p \in S} IN
  IF more = S THEN S ELSE ReachFrom(more)

\* the nodes of the output tree
Reachable == ReachFrom({Root})

Occurrences(p, n) == Cardinality({i \in 1..Len(nodes[p].children) : nodes[p].children[i] = n})

IsElement(n) ==
  nodes[n].name \notin {"#text", "#comment", "#document", "#document-fragment", "!doctype"}

IsText(n) == nodes[n].name = "#text"

ChildrenNamed(p, name) ==
  {i \in 1..Len(nodes[p].children) : nodes[nodes[p].children[i]].name = name}

\* buildTree has returned
Built == pc \in {"built", "returned", "strict-error"}

\* the constructor has returned or thrown its StrictModeError
Constructed == pc \in {"returned", "strict-error"}

DocumentMode == ~BuildOptions(options).fragment

\* ------------------------------------------------------------------------
\* Properties of the built tree and of the error list
\* ------------------------------------------------------------------------
\* C1: after buildTree, every non-root node n of the output tree has a parent,
\* occurs exactly once in its parent's children list and in no other node's
\* children list.
ParentChildConsistent ==
  Built =>
    \A n \in Reachable \ {Root} :
      /\ nodes[n].parent \in NodeIds
      /\ Occurrences(nodes[n].parent, n) = 1
      /\ \A p \in NodeIds \ {nodes[n].parent} : Occurrences(p, n) = 0

\* a tree in which a table cell sits in a row and a row group that no start
\* tag asked for (ensureTableCellContext made them), with text fostered in
\* front of the table
ParentChildWitness ==
  /\ pc = "returned"
  /\ \E n \in Reachable :
       /\ nodes[n].name = "td"
       /\ nodes[n].parent # NULL
       /\ nodes[nodes[n].parent].name = "tr"
       /\ nodes[nodes[n].parent].parent # NULL
       /\ nodes[nodes[nodes[n].parent].parent].name = "tbody"
  /\ "tr" \notin requested
  /\ \E t \in Reachable :
       /\ nodes[t].name = "table"
       /\ nodes[t].parent # NULL
       /\ IndexOf(nodes[nodes[t].parent].children, t) > 0

\* C2: after buildTree, no parent of the output tree has two text nodes as
\* adjacent children.
NoAdjacentText ==
  Built =>
    \A p \in Reachable : \A i \in 1..(Len(nodes[p].children) - 1) :
      ~(IsText(nodes[p].children[i]) /\ IsText(nodes[p].children[i + 1]))

\* C3: after buildTree, no text node of the output tree has empty data.
NoEmptyText ==
  Built => \A n \in Reachable : IsText(n) => nodes[n].data # <<>>

\* C4: every element of the output tree has namespace html, svg or math and
\* a lower-case name, whatever the fragment context.
ElementsWellFormed ==
  Built =>
    \A n \in Reachable :
      IsElement(n) => nodes[n].namespace \in {"html", "svg", "math"} /\ IsLowerCase(nodes[n].name)

\* a fragment parsed in a context of an unknown namespace whose tree holds an
\* element that came from an upper-case start tag, and a math element
ElementsWitness ==
  /\ pc = "returned"
  /\ options.fragmentContext.namespace = "xml"
  /\ "div" \in requested
  /\ \E n \in Reachable : nodes[n].name = "div"
  /\ \E n \in Reachable : IsElement(n) /\ nodes[n].namespace = "math"

\* C5: with strict off, no token sequence makes buildTree throw.
NeverThrows == ~options.strict => pc # "crashed"

\* a returned parse in which insertBefore placed a node in front of a table
\* that is not the first child of its parent
NeverThrowsWitness ==
  /\ pc = "returned"
  /\ ~options.strict
  /\ \E t \in Reachable :
       /\ nodes[t].name = "table"
       /\ nodes[t].parent # NULL
       /\ nodes[nodes[t].parent].name = "a"
       /\ IndexOf(nodes[nodes[t].parent].children, t) > 0

FragmentHasNoScaffold ==
  (Built /\ ~DocumentMode) =>
    /\ nodes[Root].name = "#document-fragment"
    /\ documentElement = NULL /\ headElement = NULL /\ bodyElement = NULL
    /\ \A n \in Reachable : IsElement(n) => nodes[n].name \in requested

\* a fragment whose input held an html, head or body start tag and some
\* other start tag, and whose tree holds an element
FragmentWitness ==
  /\ pc = "returned"
  /\ ~DocumentMode
  /\ requested \cap {"html", "head", "body"} # {}
  /\ \E n \in Reachable : IsElement(n) /\ nodes[n].name \notin {"html", "head", "body"}

\* two errors of one position
SameKey(e, f) == e.line = f.line /\ e.column = f.column

\* x is not after y: numbers ascending, null after every number
NotAfter(x, y) == y = NULL \/ (x # NULL /\ x <= y)

\* the position of e is not after the position of f
KeyOrdered(e, f) ==
  \/ e.line # f.line /\ NotAfter(e.line, f.line)
  \/ e.line = f.line /\ NotAfter(e.column, f.column)

\* the errors in the order of emission
Emitted == tokenizerErrors \o treeErrors

\* the errors of a list that have the position of e, in the order of the list
OfKey(list, e) == SelectSeq(list, LAMBDA f : SameKey(e, f))

\* C8: the errors list of a parse is non-decreasing in (line, column), null
\* after every known position, and errors of equal (line, column) keep the
\* order of emission: tokenizer errors, then tree-builder errors.
ErrorsSorted ==
  Constructed =>
    /\ Len(errors) = Len(Emitted)
    /\ \A i \in 1..Len(errors) : \A j \in i..Len(errors) : KeyOrdered(errors[i], errors[j])
    /\ \A i \in 1..Len(Emitted) : OfKey(errors, Emitted[i]) = OfKey(Emitted, Emitted[i])

\* a sorted list that differs from the emission order, with a null position
\* emitted before a known one and two errors on one position
ErrorsSortedWitness ==
  /\ Constructed
  /\ errors # Emitted
  /\ \E i \in 1..Len(Emitted) : \E j \in (i + 1)..Len(Emitted) :
       Emitted[i].line = NULL /\ Emitted[j].line # NULL
  /\ \E i \in 1..Len(errors) : \E j \in (i + 1)..Len(errors) :
       SameKey(errors[i], errors[j]) /\ errors[i] # errors[j]

\* C9: with strict on, the errors are those of a parse with collectErrors on;
\* if there is one, the constructor throws a StrictModeError that wraps the
\* first error of the sorted list, which no other error sorts before, and
\* returns no tree; if there is none it returns the tree.
StrictMode ==
  (options.strict /\ Constructed) =>
    /\ errors = reference.errors
    /\ errors # <<>> =>
         /\ pc = "strict-error"
         /\ result = NULL
         /\ thrown = errors[1]
         /\ \A i \in 1..Len(errors) : KeyOrdered(thrown, errors[i])
    /\ errors = <<>> => pc = "returned" /\ result = Root /\ thrown = NoError

\* strict on, collectErrors off, and a throw that wraps a tree-builder
\* error emitted after a tokenizer error of a later position
StrictModeWitness ==
  /\ options.strict /\ ~options.collectErrors
  /\ pc = "strict-error"
  /\ thrown.category = "treebuilder"
  /\ tokenizerErrors # <<>>

EofErrorNames(errs) ==
  LET eof == SelectSeq(errs, LAMBDA e : e.code = "expected-closing-tag-but-got-eof") IN
  [i \in 1..Len(eof) |-> eof[i].about]

\* the names of the open elements other than html, head and body, from the
\* top of the stack down to the element above the root
RECURSIVE OpenNames(_)
OpenNames(s) ==
  IF Len(s) <= 1 THEN <<>>
  ELSE (IF nodes[s[Len(s)]].name \in {"html", "head", "body"} THEN <<>>
        ELSE <<nodes[s[Len(s)]].name>>) \o OpenNames(SubSeq(s, 1, Len(s) - 1))

UnmatchedEndTagStep ==
  /\ pc = "building"
  /\ consumed' = consumed + 1
  /\ lastToken'.kind = "end_tag"
  /\ DocumentMode
  /\ \A i \in 1..Len(stack) : nodes[stack[i]].name # lastToken'.name

\* the step appends one br element to the current insertion point and
\* changes no other node
BrAppended ==
  LET parent == currentNode(B, Root, bodyElement) IN
  /\ Len(nodes') = Len(nodes) + 1
  /\ nodes'[Len(nodes')].name = "br"
  /\ nodes'[Len(nodes')].parent = parent
  /\ nodes'[parent].children = Append(nodes[parent].children, Len(nodes'))
  /\ \A n \in NodeIds \ {parent} : nodes'[n] = nodes[n]

\* C12: in document mode an end tag whose name matches no open element
\* leaves the stack and the flags unchanged, changes the tree only for
\* </br> (one br appended at the current insertion point), and records an
\* unexpected-end-tag error exactly when the name is neither form nor br.
UnmatchedEndTag ==
  [][UnmatchedEndTagStep =>
       /\ stack' = stack
       /\ UNCHANGED <<documentElement, headElement, bodyElement, seenDoctype, afterBody,
                      framesetOk, fragmentRootNamespaceOverride, closePOnTable>>
       /\ IF lastToken'.name = "br" THEN BrAppended ELSE nodes' = nodes
       /\ IF lastToken'.name \in {"form", "br"} THEN treeErrors' = treeErrors
          ELSE /\ Len(treeErrors') = Len(treeErrors) + 1
               /\ SubSeq(treeErrors', 1, Len(treeErrors)) = treeErrors
               /\ treeErrors'[Len(treeErrors')].code = "unexpected-end-tag"
               /\ treeErrors'[Len(treeErrors')].about = lastToken'.name]_vars


\* ------------------------------------------------------------------------
\* Properties of stream()
\* ------------------------------------------------------------------------
RECURSIVE Flat(_)
Flat(seqs) == IF seqs = <<>> THEN <<>> ELSE Head(seqs) \o Flat(Tail(seqs))

DataOf(items) == [i \in 1..Len(items) |-> items[i].data]

TextEvents(events) == SelectSeq(events, LAMBDA e : e.kind = "text")

TextTokens(tokens) == SelectSeq(tokens, LAMBDA t : t.kind = "text")

\* C13: stream() never yields two text events in a row nor an empty one; the
\* text tokens between two other tokens are yielded as one event holding their
\* concatenation before the next event, and text at the end is yielded when
\* the tokens run out.
TextCoalesced ==
  /\ \A i \in 1..Len(stream.events) :
       stream.events[i].kind = "text" =>
         /\ stream.events[i].data # <<>>
         /\ i < Len(stream.events) => stream.events[i + 1].kind # "text"
  /\ Flat(DataOf(TextEvents(stream.events))) \o stream.textBuffer
       = Flat(DataOf(TextTokens(stream.tokens)))
  /\ Len(SelectSeq(stream.events, LAMBDA e : e.kind \notin {"text", "end"}))
       = Len(SelectSeq(stream.tokens, LAMBDA t : t.kind \notin {"text", "end_tag"}))
  /\ (stream.tokens # <<>> /\ stream.tokens[Len(stream.tokens)].kind # "text")
       => stream.textBuffer = <<>>
  /\ Built => stream.textBuffer = <<>>

TextCoalescedWitness ==
  /\ pc = "returned"
  /\ Len(stream.tokens) = 3
  /\ stream.tokens[1].kind = "text" /\ stream.tokens[2].kind = "text"
  /\ stream.tokens[3].kind = "start_tag"
  /\ Len(stream.events) = 2
  /\ stream.events[1].data = stream.tokens[1].data \o stream.tokens[2].data


\* the data of the text nodes below the given nodes, in document order
RECURSIVE TextOfNodes(_)
TextOfNodes(ids) ==
  IF ids = <<>> THEN <<>>
  ELSE (IF IsText(Head(ids)) THEN nodes[Head(ids)].data
        ELSE TextOfNodes(nodes[Head(ids)].children))
       \o TextOfNodes(Tail(ids))

\* `kept` is `full` with some of its whitespace characters taken out
RECURSIVE WhitespaceStripped(_, _)
WhitespaceStripped(full, kept) ==
  IF full = <<>> THEN kept = <<>>
  ELSE \/ kept # <<>> /\ Head(full) = Head(kept) /\ WhitespaceStripped(Tail(full), Tail(kept))
       \/ Head(full) \in {" ", "\t", "\n", "\f", "\r"} /\ WhitespaceStripped(Tail(full), kept)

\* C14: the text events of stream(html), concatenated, are the data of the
\* text nodes of parse(html).root concatenated in document order, but for
\* whitespace that the tree builder stripped.
StreamTextIsTreeText ==
  pc = "returned" =>
    WhitespaceStripped(Flat(DataOf(TextEvents(stream.events))), TextOfNodes(<<Root>>))


\* ------------------------------------------------------------------------
\* Properties of the tokenizer
\* ------------------------------------------------------------------------
Returned == tz.pc = "done"

\* a step of the loop of tokenizeHTML breaks or moves i forward, a step of the
\* script scan returns or moves its index forward, and the loop is behind
\* where it was when the scan returns into it; no index leaves the text
ScanProgress ==
  /\ tz.pc = "loop" => tz'.pc \in {"done", "crashed"} \/ tz'.i > tz.i
  /\ tz.pc = "script" =>
       \/ tz'.pc = "script" /\ tz'.scan.i > tz.scan.i /\ tz'.i = tz.i
       \/ tz'.pc = "loop" /\ tz'.i > tz.i
       \/ tz'.pc \in {"done", "crashed"}
  /\ tz'.i <= Len(tz'.html) /\ tz'.scan.i <= Len(StrToLowerCase(tz'.html))

\* C15: tokenizeHTML terminates on every input: every iteration of its loop
\* breaks or strictly increases i, every iteration of the loop of
\* findScriptRawCloseIndex returns or strictly increases its index, and so the
\* two loops together make no more iterations than the length of the input
\* and the length of its lower case together.
TokenizerTerminates ==
  [][ScanProgress /\ tz'.iterations <= Len(tz'.html) + Len(StrToLowerCase(tz'.html))]_vars

TokenizerTerminatesWitness ==
  /\ Returned
  /\ tz.scan.scriptDataEscaped
  /\ tz.scan.returned /\ tz.scan.closeIdx >= 0
  /\ tz.iterations >= Len(tz.tokens)
  /\ Len(tz.tokens) = 4


HasError(code) == \E k \in 1..Len(tz.errors) : tz.errors[k].code = code

\* where the iteration that stopped the tokenizer found its `<`
LastLt == StrIndexOf(tz.html, <<"<">>, tz.i)

\* C16: no character outside markup is lost; in particular, when the
\* tokenizer stops at a `<` that no `>` follows, with the eof-in-tag error, its
\* last token is a text token at that `<` that holds the rest of the input,
\* newlines normalized and entities replaced.
UnterminatedTagIsText ==
  (Returned /\ HasError("eof-in-tag")) =>
    /\ tz.tokens # <<>>
    /\ tz.tokens[Len(tz.tokens)].kind = "text"
    /\ tz.tokens[Len(tz.tokens)].pos = LastLt
    /\ tz.tokens[Len(tz.tokens)].data
         = decodeCharacterReferences(normalizeNewlines(Slice(tz.html, LastLt)), FALSE).out


\* the text between offsets from and to as a raw-text element of that name
\* holds it: newlines normalized, entities replaced in textarea and title only
RawTextOf(name, from, to) ==
  IF name \in {TextareaName, TitleName}
    THEN decodeCharacterReferences(normalizeNewlines(StrSlice(tz.html, from, to)), FALSE).out
    ELSE normalizeNewlines(StrSlice(tz.html, from, to))

IsEndTagOf(k, name) ==
  k <= Len(tz.tokens) /\ tz.tokens[k].kind = "end_tag" /\ tz.tokens[k].name = name

\* tokens[k] is the text from offset `from` up to the token that follows it,
\* or up to the end of the input when it is the last token
IsRawTextFrom(k, name, from) ==
  /\ k <= Len(tz.tokens)
  /\ tz.tokens[k].kind = "text"
  /\ tz.tokens[k].pos = from
  /\ tz.tokens[k].data
       = RawTextOf(name, from, IF k < Len(tz.tokens) THEN tz.tokens[k + 1].pos ELSE Len(tz.html))

\* what follows the start tag tokens[k] of a raw-text element whose `>` is
\* right before offset `from`
RawTextFollows(k, name, from) ==
  \/ IsEndTagOf(k + 1, name) /\ tz.tokens[k + 1].pos = from
  \/ IsRawTextFrom(k + 1, name, from) /\ IsEndTagOf(k + 2, name)
  \/ /\ HasError("expected-closing-tag-but-got-eof")
     /\ \/ k = Len(tz.tokens) /\ from = Len(tz.html)
        \/ k + 1 = Len(tz.tokens) /\ IsRawTextFrom(k + 1, name, from)

\* C17: a start tag that is not self-closing of script, style, xmp, iframe,
\* noembed, noframes, plaintext, textarea or title is followed by at most one
\* text token and then by the end tag of that name, or by nothing more and
\* the error expected-closing-tag-but-got-eof; the text is all the input in
\* between, with the entities replaced for textarea and title only.
RawTextIsOneToken ==
  Returned =>
    \A k \in 1..Len(tz.tokens) :
      (/\ tz.tokens[k].kind = "start_tag"
       /\ ~tz.tokens[k].selfClosing
       /\ shouldConsumeRawText(tz.tokens[k].name))
        => RawTextFollows(k, tz.tokens[k].name, StrIndexOf(tz.html, Gt, tz.tokens[k].pos) + 1)


\* the script scan is at a `</script` at a tag boundary
AtScriptEndTag ==
  /\ tz.pc = "script"
  /\ StrStartsWith(StrToLowerCase(tz.html), ScriptEnd, tz.scan.i)
  /\ isTagBoundary(StrToLowerCase(tz.html), tz.scan.i + 8)

\* an iteration of one of the two loops
Iterates == tz'.iterations = tz.iterations + 1

\* C18: an iteration of the script scan at a `</script` at a tag boundary
\* inside the double-escaped region does not return that position: it clears
\* the double-escaped flag, changes nothing else, and the scan goes on behind
\* the tag.
EndTagInsideIsSkipped ==
  [][(AtScriptEndTag /\ tz.scan.scriptDataDoubleEscaped /\ Iterates) =>
       /\ tz'.pc = "script"
       /\ ~tz'.scan.returned
       /\ ~tz'.scan.scriptDataDoubleEscaped
       /\ tz'.scan.scriptDataEscaped
       /\ tz'.scan.i > tz.scan.i + 8
       /\ tz'.tokens = tz.tokens /\ tz'.errors = tz.errors /\ tz'.i = tz.i]_vars


\* findScriptRawCloseIndex has returned the position of an end tag
ScanAccepted == tz.scan.returned /\ tz.scan.closeIdx >= 0

\* the position returned is a `</script` at a tag boundary of the text
AcceptedIsEndTag ==
  /\ StrStartsWith(StrToLowerCase(tz.html), ScriptEnd, tz.scan.closeIdx)
  /\ isTagBoundary(StrToLowerCase(tz.html), tz.scan.closeIdx + 8)

\* C19 as claimed: findScriptRawCloseIndex returns the position of a
\* `</script` end tag only where neither script-data-escaped nor
\* script-data-double-escaped is set.
ScanAcceptsWithNoFlag ==
  ScanAccepted =>
    /\ AcceptedIsEndTag
    /\ ~tz.scan.scriptDataEscaped
    /\ ~tz.scan.scriptDataDoubleEscaped

\* C19: findScriptRawCloseIndex returns the position of a `</script` end tag
\* only where script-data-double-escaped is not set; script-data-escaped,
\* which no branch clears once a `<!--` has set it, may be set.
ScanAcceptsOutsideDoubleEscape ==
  ScanAccepted => (AcceptedIsEndTag /\ ~tz.scan.scriptDataDoubleEscaped)

\* a position is returned after a `<!--` has set script-data-escaped
ScanAcceptsOutsideDoubleEscapeWitness ==
  ScanAccepted /\ tz.scan.scriptDataEscaped /\ ~tz.scan.scriptDataDoubleEscaped


\* ------------------------------------------------------------------------
\* Properties of numeric character references
\* ------------------------------------------------------------------------
\* the digits of the reference: the longest run of digits of the radix
ReferenceDigits ==
  SubSeq(charRef.digits, 1,
         SkipWhile(charRef.digits, 0,
                   {ch \in Range(charRef.digits) : isRadixDigit(ch, charRef.radix)}))

\* the number the reference names
ReferenceNumber == parseInt(ReferenceDigits, charRef.radix)

\* decodeNumeric has decoded the reference
NumericDecoded == charRef.pc = "decoded" /\ charRef.result # NoReference

\* the code point the reference stands for
ExpectedCodePoint(n) ==
  IF n = 0 \/ n > MaxCodePoint \/ (n >= FirstSurrogate /\ n <= LastSurrogate)
    THEN ReplacementCodePoint
  ELSE IF \E r \in C1_REPLACEMENTS : r[1] = n
    THEN (CHOOSE r \in C1_REPLACEMENTS : r[1] = n)[2]
  ELSE n

\* C20: a numeric reference never decodes to U+0000, a surrogate or a value
\* above 0x10FFFF: 0, the values above 0x10FFFF (those of digit runs too long
\* to parse exactly included) and the surrogates give U+FFFD, the C1 code
\* points of the table are remapped, every other code point is kept, and
\* String.fromCodePoint gets no invalid argument.
NumericReferenceIsScalar ==
  NumericDecoded =>
    /\ ~charRef.result.threw
    /\ charRef.result.codePoint = ExpectedCodePoint(ReferenceNumber)
    /\ charRef.result.codePoint \in 1..MaxCodePoint
    /\ charRef.result.codePoint \notin FirstSurrogate..LastSurrogate
    /\ charRef.result.value = <<fromCodePoint(charRef.result.codePoint)>>
    /\ charRef.result.value # <<NUL>>

\* a reference to a number above 0x10FFFF is decoded to U+FFFD
NumericReferenceIsScalarWitness ==
  /\ NumericDecoded
  /\ ReferenceNumber > MaxCodePoint
  /\ charRef.result.codePoint = ReplacementCodePoint
  /\ ~charRef.result.threw


\* ------------------------------------------------------------------------
\* Properties of named character references
\* ------------------------------------------------------------------------
\* the loop of decodeCharacterReferences is at the `&` of a named reference
AtNamedReference ==
  /\ decoder.pc = "loop"
  /\ decoder.i < Len(decoder.input)
  /\ CharAt(decoder.input, decoder.i) = "&"
  /\ CharAt(decoder.input, decoder.i + 1) \notin {"", "#", " ", "\t", "\n", "\r", "\f"}

\* the text between the `&` and the index end
NameUpTo(end) == SubSeq(decoder.input, decoder.i + 2, end)

IsKey(name) == \E e \in HTML5_NAMED_ENTITIES : e[1] = name

\* in an attribute, a match without `;` is rejected in front of a letter, a
\* digit or `=`
RejectedAt(end) ==
  /\ decoder.inAttribute
  /\ decoder.input[end] # ";"
  /\ end < Len(decoder.input)
  /\ decoder.input[end + 1] \in
       Range(UpperLetters) \cup Range(LowerLetters) \cup Range(Digits) \cup {"="}

\* the ends of the prefixes that are keys and are not rejected
Accepted ==
  {end \in (decoder.i + 2)..Len(decoder.input) : IsKey(NameUpTo(end)) /\ ~RejectedAt(end)}

LongestAccepted == CHOOSE end \in Accepted : \A other \in Accepted : other <= end

\* C21: at the `&` of a named reference, decodeCharacterReferences replaces
\* the longest prefix that is a key of the table and is not rejected (in an
\* attribute, a match without `;` in front of an ASCII letter, digit or `=`
\* is rejected and the shorter prefixes are tried); with no prefix accepted
\* it emits the `&` itself and goes on at the next character.
NamedReferenceIsLongestKey ==
  [][AtNamedReference =>
       IF Accepted = {}
         THEN /\ decoder'.out = Append(decoder.out, "&")
              /\ decoder'.i = decoder.i + 1
         ELSE /\ \E e \in HTML5_NAMED_ENTITIES :
                   /\ e[1] = NameUpTo(LongestAccepted)
                   /\ decoder'.out = decoder.out \o e[2]
              /\ decoder'.i = LongestAccepted]_decoder

\* in an attribute, `&not` in front of `in` or `=` has been rejected and the
\* `&` emitted as it is
NamedReferenceIsLongestKeyWitness ==
  /\ decoder.pc = "done"
  /\ decoder.inAttribute
  /\ decoder.input \in {<<"&", "n", "o", "t", "i", "n">>, <<"&", "n", "o", "t", "=">>}
  /\ decoder.out = decoder.input


\* ------------------------------------------------------------------------
\* Properties of node locations
\* ------------------------------------------------------------------------
\* the nodes the parse has made: every node of the arena but the root
CreatedNodes == {n \in NodeIds : n # Root}

\* C22: with trackNodeLocations on, every node made during the parse
\* (scaffold, synthetic and cloned nodes included) has its originOffset,
\* originLine and originCol set.
EveryNodeIsLocated ==
  options.trackNodeLocations => \A n \in CreatedNodes : nodes[n].located


\* ------------------------------------------------------------------------
\* Properties of template elements
\* ------------------------------------------------------------------------
\* the template elements of the html namespace: those with a templateContent
HtmlTemplates ==
  {t \in NodeIds : nodes[t].name = "template" /\ nodes[t].templateContent # NULL}

\* C23: the nodes inserted under a template element of the html namespace are
\* children of its templateContent, where the serializer reads them.
TemplateContentHoldsChildren ==
  \A t \in HtmlTemplates : \A n \in NodeIds :
    nodes[n].parent = t => IndexOf(nodes[nodes[t].templateContent].children, n) >= 0


\* ------------------------------------------------------------------------
\* Properties of the open-elements stack
\* ------------------------------------------------------------------------
\* C24: after every token the open-elements stack is not empty, has no
\* undefined or null entry (no `stack.length = k` has extended it), and its
\* bottom entry is the root (no pop or truncation has removed it).
StackBottomIsRoot ==
  /\ Len(stack) >= 1
  /\ stack[1] = Root
  /\ \A i \in 1..Len(stack) : stack[i] # NULL /\ stack[i] \in NodeIds


\* `</html>` has truncated the stack down to the root
StackBottomIsRootWitness ==
  /\ pc = "building"
  /\ lastToken.kind = "end_tag"
  /\ documentElement # NULL
  /\ stack = <<Root>>


\* ------------------------------------------------------------------------
\* Properties of frameset
\* ------------------------------------------------------------------------
\* the step consumes a start tag named `name` in document mode
StartTagStep(name) ==
  /\ pc = "building" /\ DocumentMode
  /\ consumed' = consumed + 1
  /\ lastToken'.kind = "start_tag"
  /\ ToLowerCase(lastToken'.name) = name

\* a frameset start tag is accepted: the frameset element is made
FramesetAccepted ==
  /\ StartTagStep("frameset")
  /\ Len(nodes') > Len(nodes)
  /\ nodes'[Len(nodes')].name = "frameset"

\* C25: when a frameset start tag is accepted, the body taken out of the html
\* element is empty, so that no node of the tree is detached with it; the
\* frameset is the last child of html and the top of the stack.
FramesetRemovesEmptyBody ==
  [][FramesetAccepted =>
       /\ bodyElement # NULL => nodes[bodyElement].children = <<>>
       /\ \A n \in Reachable : n # bodyElement => n \in Reachable'
       /\ nodes'[Len(nodes')].parent = documentElement'
       /\ stack'[Len(stack')] = Len(nodes')]_vars


\* the insertion point is in no namespace or in the html namespace
InHtmlContext == Ns(B, currentNode(B, Root, bodyElement)) \in {NoNamespace, "html"}

\* a frameset start tag arrives in HTML context while framesetOk is false
FramesetRefused == ~framesetOk /\ StartTagStep("frameset") /\ InHtmlContext

\* framesetOk is true before the first token and is never set again once it
\* is cleared
FramesetOkIsCleared == (consumed = 0 => framesetOk) /\ (~framesetOk => ~framesetOk')

\* C26 as claimed: framesetOk starts true and is never set again once
\* cleared; while it is false, a frameset start tag in HTML context creates
\* no element and changes neither the tree nor the stack.
FramesetRefusedChangesNothing ==
  [][/\ FramesetOkIsCleared
     /\ FramesetRefused => (nodes' = nodes /\ stack' = stack)]_vars

\* the stack with the html element put back at index 1
DocumentOnStack ==
  IF documentElement = NULL THEN stack
  ELSE IF Len(stack) < 2 THEN Append(stack, documentElement)
  ELSE [stack EXCEPT ![2] = documentElement]

\* C26: framesetOk starts true and is never set again once cleared; while it
\* is false, a frameset start tag in HTML context creates no element and
\* leaves the tree as it is, and the only change of the stack is that the
\* html element is put back at index 1 when it is not there.
FramesetRefusedKeepsTree ==
  [][/\ FramesetOkIsCleared
     /\ FramesetRefused => (nodes' = nodes /\ stack' = DocumentOnStack)]_vars

\* a frameset start tag has been refused after text
FramesetRefusedKeepsTreeWitness ==
  /\ pc = "building" /\ DocumentMode
  /\ ~framesetOk
  /\ lastToken.kind = "start_tag" /\ lastToken.name = "frameset"
  /\ \A n \in NodeIds : nodes[n].name # "frameset"


\* the token ends the body: </body> or </html>
EndsBody(tok) == tok.kind = "end_tag" /\ tok.name \in {"body", "html"}

\* the token ends the time after the body: a start tag or non-whitespace text
EndsAfterBody(tok) ==
  \/ tok.kind = "start_tag"
  \/ tok.kind = "text" /\ HasNonSpace(tok.data)

\* a </body> or </html> has been consumed, and no start tag and no
\* non-whitespace text since
AfterBodyEnd ==
  \E i \in 1..Len(stream.tokens) :
    /\ EndsBody(stream.tokens[i])
    /\ \A j \in (i + 1)..Len(stream.tokens) : ~EndsAfterBody(stream.tokens[j])

\* buildTree consumes a comment token in document mode
CommentStep ==
  /\ pc = "building" /\ DocumentMode
  /\ consumed' = consumed + 1
  /\ lastToken'.kind = "comment"

\* the step makes one comment node and appends it to the root
CommentAppendedToRoot ==
  /\ Len(nodes') = Len(nodes) + 1
  /\ nodes'[Len(nodes')].name = "#comment"
  /\ nodes'[Len(nodes')].parent = Root
  /\ nodes'[Root].children = Append(nodes[Root].children, Len(nodes'))

\* C27: in document mode, after a </body> or </html> end tag has been
\* processed, every comment token that arrives before the next start tag or
\* non-whitespace text is appended as a child of the root.
CommentAfterBodyGoesToRoot ==
  [][(AfterBodyEnd /\ CommentStep) => CommentAppendedToRoot]_vars


\* buildTree consumes a comment token whose data starts with '?'
QuestionCommentStep == CommentStep /\ StartsWith(lastToken'.data, "?")

\* the step makes one comment node and puts it in front of the root's children
CommentInsertedFirst ==
  /\ Len(nodes') = Len(nodes) + 1
  /\ nodes'[Len(nodes')].name = "#comment"
  /\ nodes'[Len(nodes')].parent = Root
  /\ nodes'[Root].children = <<Len(nodes')>> \o nodes[Root].children

\* C28: in document mode, a comment token whose data starts with '?' is
\* inserted as the first child of the root, whatever the state of the builder
\* when it arrives.
QuestionCommentIsFirst ==
  [][QuestionCommentStep => CommentInsertedFirst]_vars


\* the names that start a part of a table (shouldFosterParentElement)
TableParts == {"caption", "colgroup", "tbody", "tfoot", "thead", "tr", "td", "th"}

\* the top of the stack is named as one of `names`
TopIs(names) == Len(stack) > 1 /\ nodes[stack[Len(stack)]].name \in names

\* the nodes of the subtree of `n` after the step
RECURSIVE SubtreeAfter(_)
SubtreeAfter(S) ==
  LET more == S \cup UNION {{nodes'[p].children[i] : i \in 1..Len(nodes'[p].children)} : p \in S} IN
  IF more = S THEN S ELSE SubtreeAfter(more)

\* a start tag that is fostered arrives while the top of the stack is a table
FosteredStartTag ==
  /\ pc = "building" /\ DocumentMode
  /\ TopIs({"table"})
  /\ consumed' = consumed + 1
  /\ lastToken'.kind = "start_tag"
  /\ ToLowerCase(lastToken'.name) \notin TableParts \cup {"form", "input"}

\* text arrives while the top of the stack is a table, a section or a row
FosteredText ==
  /\ pc = "building" /\ DocumentMode
  /\ TopIs({"table", "tbody", "thead", "tfoot", "tr"})
  /\ consumed' = consumed + 1
  /\ lastToken'.kind = "text"

\* the step makes one node and inserts it into the parent of the table `t`
\* immediately before `t`, outside the subtree of `t`
InsertedBefore(t) ==
  LET new == Len(nodes')
      p == nodes[t].parent
  IN /\ Len(nodes') = Len(nodes) + 1
     /\ p # NULL
     /\ nodes'[new].parent = p
     /\ \E i \in 1..Len(nodes'[p].children) :
          /\ nodes'[p].children[i] = new
          /\ i < Len(nodes'[p].children)
          /\ nodes'[p].children[i + 1] = t
     /\ new \notin SubtreeAfter({t})

\* the table nearest to the top of the stack (findNearestIndex)
NearestTable ==
  stack[CHOOSE i \in 1..Len(stack) :
          /\ nodes[stack[i]].name = "table"
          /\ \A j \in (i + 1)..Len(stack) : nodes[stack[j]].name # "table"]

StartTagIsFostered ==
  FosteredStartTag =>
    /\ InsertedBefore(stack[Len(stack)])
    /\ nodes'[Len(nodes')].name = ToLowerCase(lastToken'.name)
    /\ stack' = IF lastToken'.name \in VOID_ELEMENTS
                  THEN stack ELSE Append(stack, Len(nodes'))

\* the sibling before `t` in its parent, if any
PreviousSibling(t) ==
  LET siblings == nodes[nodes[t].parent].children
      i == CHOOSE k \in 1..Len(siblings) : siblings[k] = t
  IN IF i > 1 THEN siblings[i - 1] ELSE NULL

\* the step makes a text node and a clone of the <a> before the table `t`,
\* and inserts the clone, holding the text, immediately before `t`
WrappedBefore(t) ==
  LET text == Len(nodes) + 1
      clone == Len(nodes) + 2
      p == nodes[t].parent
  IN /\ Len(nodes') = clone
     /\ nodes'[text].name = "#text"
     /\ nodes'[text].parent = clone
     /\ nodes'[clone].name = "a"
     /\ nodes'[clone].attrs = nodes[PreviousSibling(t)].attrs
     /\ nodes'[clone].children = <<text>>
     /\ nodes'[clone].parent = p
     /\ \E i \in 1..(Len(nodes'[p].children) - 1) :
          nodes'[p].children[i] = clone /\ nodes'[p].children[i + 1] = t
     /\ clone \notin SubtreeAfter({t})

\* the table is in the tree and the element before it is an <a>
FollowsAnchor(t) ==
  /\ nodes[t].parent # NULL
  /\ PreviousSibling(t) # NULL
  /\ nodes[PreviousSibling(t)].name = "a"

TableSections == {"tbody", "thead", "tfoot"}

\* a table is open and the insertion point is in HTML context
TableOpenInHtml ==
  /\ \E i \in 1..Len(stack) : nodes[stack[i]].name = "table"
  /\ InHtmlContext

\* the element the step has made for the start tag it consumed
NewElement ==
  CHOOSE n \in (Len(nodes) + 1)..Len(nodes') :
    /\ nodes'[n].name = ToLowerCase(lastToken'.name)
    /\ \A m \in (n + 1)..Len(nodes') : nodes'[m].name # nodes'[n].name

\* after the step `n` is a child of an element named in `names`
ChildOfNamed(n, names) ==
  /\ nodes'[n].parent # NULL
  /\ nodes'[nodes'[n].parent].name \in names
  /\ \E i \in 1..Len(nodes'[nodes'[n].parent].children) :
       nodes'[nodes'[n].parent].children[i] = n

\* after the step `row` is in a row group of the table `t`
RowOfTable(row, t) ==
  /\ ChildOfNamed(row, TableSections)
  /\ ChildOfNamed(nodes'[row].parent, {"table"})
  /\ nodes'[nodes'[row].parent].parent = t

\* a start tag named in `names` arrives while a table is open in HTML context
TablePartStep(names) ==
  /\ \E name \in names : StartTagStep(name)
  /\ TableOpenInHtml

\* C30: in document mode, after a td or th start tag arrives while a table is
\* open in HTML context, the new cell is a child of a tr that is a child of a
\* tbody, thead or tfoot that is a child of the nearest open table; a tr
\* start tag without an open row group gets a tbody in that nearest table.
CellIsInNearestTable ==
  [][/\ TablePartStep({"td", "th"}) =>
          /\ \E n \in (Len(nodes) + 1)..Len(nodes') : nodes'[n].name = lastToken'.name
          /\ ChildOfNamed(NewElement, {"tr"})
          /\ RowOfTable(nodes'[NewElement].parent, NearestTable)
     /\ (/\ TablePartStep({"tr"})
         /\ \A i \in 1..Len(stack) : nodes[stack[i]].name \notin TableSections) =>
          /\ \E n \in (Len(nodes) + 1)..Len(nodes') : nodes'[n].name = "tr"
          /\ RowOfTable(NewElement, NearestTable)
          /\ nodes'[NewElement].parent > Len(nodes)]_vars


\* the p elements on the stack
OpenPs == {stack[i] : i \in {k \in 1..Len(stack) : nodes[stack[k]].name = "p"}}

\* a start tag that closes p arrives while a p is open
PCloserStep ==
  /\ \E name \in CLOSE_P_ON_START : StartTagStep(name)
  /\ OpenPs # {}

\* the elements the step has made for the start tag it consumed
NewElements ==
  {n \in (Len(nodes) + 1)..Len(nodes') : nodes'[n].name = ToLowerCase(lastToken'.name)}

\* C31: in document mode, after a start tag of CLOSE_P_ON_START has been
\* processed while a p element was open, no previously open p element remains
\* on the stack, and the new element is not a descendant of that p.
PCloserClosesP ==
  [][PCloserStep =>
       /\ \A i \in 1..Len(stack') : stack'[i] \notin OpenPs
       /\ NewElements \cap SubtreeAfter(OpenPs) = {}]_vars


\* the element on the stack is in a foreign namespace
ForeignOnStack(i) == nodes[stack[i]].namespace \notin {NoNamespace, "html"}

\* the index on the stack of the p that </p> matches: the nearest one
OpenPIndex ==
  CHOOSE k \in 2..Len(stack) :
    /\ nodes[stack[k]].name = "p"
    /\ \A j \in (k + 1)..Len(stack) : nodes[stack[j]].name # "p"

\* </p> arrives and matches an open p with no foreign content above it
EndTagPStep ==
  /\ pc = "building"
  /\ consumed' = consumed + 1
  /\ lastToken'.kind = "end_tag" /\ lastToken'.name = "p"
  /\ \E k \in 2..Len(stack) : nodes[stack[k]].name = "p"
  /\ \A j \in (OpenPIndex + 1)..Len(stack) : ~ForeignOnStack(j)

\* the formatting elements open above the p, in stack order
RECURSIVE FormattingAbove(_)
FormattingAbove(j) ==
  IF j > Len(stack) THEN <<>>
  ELSE (IF nodes[stack[j]].name \in FORMATTING_TAGS THEN <<stack[j]>> ELSE <<>>)
         \o FormattingAbove(j + 1)

\* after the step `n` is the child of `parent` that follows `prev`
NextSiblingAfter(n, parent, prev) ==
  /\ nodes'[n].parent = parent
  /\ \E i \in 1..(Len(nodes'[parent].children) - 1) :
       nodes'[parent].children[i] = prev /\ nodes'[parent].children[i + 1] = n

IsIntegrationPoint(n) ==
  \/ nodes[n].namespace = "svg" /\ nodes[n].name \in {"foreignobject", "desc", "title"}
  \/ nodes[n].namespace = "math" /\ nodes[n].name \in {"mi", "mo", "mn", "ms", "mtext"}

\* a start tag arrives while the current node is an HTML integration point
IntegrationPointStep ==
  /\ pc = "building"
  /\ consumed' = consumed + 1
  /\ lastToken'.kind = "start_tag"
  /\ Len(stack) > 1
  /\ IsIntegrationPoint(stack[Len(stack)])

\* C33: a start tag that arrives while the current node is an HTML
\* integration point produces an element in the html namespace that is a
\* child of that integration point, and the integration point stays on the
\* stack.
IntegrationPointParsesHtml ==
  [][IntegrationPointStep =>
       /\ \E n \in NewElements :
            /\ nodes'[n].namespace = "html"
            /\ nodes'[n].parent = stack[Len(stack)]
       /\ \E i \in 1..Len(stack') : stack'[i] = stack[Len(stack)]]_vars


\* the node is in a foreign namespace
ForeignNode(n) == nodes[n].namespace \notin {NoNamespace, "html"}

\* the elements of the run of non-HTML elements at the top of the stack
TopForeignRun ==
  {stack[i] : i \in {k \in 2..Len(stack) :
                       \A j \in k..Len(stack) : nodes[stack[j]].namespace # "html"}}

\* a breakout tag, or a font tag with color, face or size, arrives while the
\* current node is a foreign element that is not an integration point
BreakoutStep ==
  /\ pc = "building"
  /\ consumed' = consumed + 1
  /\ lastToken'.kind = "start_tag"
  /\ \/ lastToken'.name \in FOREIGN_BREAKOUT_TAGS
     \/ lastToken'.name = "font" /\ FontBreaksOut(lastToken'.attrs)
  /\ Len(stack) > 1
  /\ ForeignNode(stack[Len(stack)])
  /\ ~IsIntegrationPoint(stack[Len(stack)])

\* no element of the html namespace has a foreign parent that is not an
\* integration point
HtmlElementsHaveHtmlParents ==
  \A n \in NodeIds :
    (IsElement(n) /\ nodes[n].namespace = "html" /\ nodes[n].parent # NULL) =>
      (ForeignNode(nodes[n].parent) => IsIntegrationPoint(nodes[n].parent))

\* C34: when a breakout tag (or a font tag with color, face or size) arrives
\* while the current node is a foreign element that is not an integration
\* point, the new element has namespace html, the non-HTML elements at the top
\* of the stack are popped, and the new element's parent is a node of the html
\* namespace or the root; no element of the html namespace ever has a
\* foreign parent that is not an integration point.
BreakoutLeavesForeign ==
  [][/\ BreakoutStep =>
          /\ \A n \in NewElements :
               /\ nodes'[n].namespace = "html"
               /\ nodes'[n].parent = Root \/ nodes'[nodes'[n].parent].namespace = "html"
          /\ \A i \in 1..Len(stack') : stack'[i] \notin TopForeignRun
     /\ HtmlElementsHaveHtmlParents']_vars


\* C35: no element whose name is in VOID_ELEMENTS is ever on the
\* open-elements stack, and every such element of the tree has no children,
\* whether or not its start tag carried the self-closing flag.
VoidElementsStayClosed ==
  /\ \A i \in 1..Len(stack) : nodes[stack[i]].name \notin VOID_ELEMENTS
  /\ \A n \in NodeIds :
       (IsElement(n) /\ nodes[n].name \in VOID_ELEMENTS) => nodes[n].children = <<>>

\* an hr has been made for a self-closing start tag and one for a plain start
\* tag, and the element made after them is their sibling
VoidElementsStayClosedWitness ==
  /\ \E i \in 1..Len(stream.tokens) :
       stream.tokens[i].name = "hr" /\ stream.tokens[i].selfClosing
  /\ \E i \in 1..Len(stream.tokens) :
       stream.tokens[i].name = "hr" /\ ~stream.tokens[i].selfClosing
  /\ \E n \in NodeIds, m \in NodeIds, d \in NodeIds :
       /\ n < m /\ m < d
       /\ nodes[n].name = "hr" /\ nodes[m].name = "hr" /\ nodes[d].name = "div"
       /\ nodes[n].parent = nodes[d].parent
       /\ nodes[m].parent = nodes[d].parent


\* the index (from 0) on the stack of the element the end tag matches
MatchedIndex == findOpenElement(B, lastToken'.name)

\* a formatting end tag arrives that misnested recovery handles
MisnestedStep ==
  /\ pc = "building"
  /\ consumed' = consumed + 1
  /\ lastToken'.kind = "end_tag"
  /\ lastToken'.name \in FORMATTING_TAGS
  /\ MatchedIndex >= 0
  /\ ~hasForeignContentAbove(B, MatchedIndex)
  /\ ~(lastToken'.name = "b" /\ CanHoistTrailingAside(B, MatchedIndex))
  /\ ~CanFormattingSplitRecovery(B, MatchedIndex)
  /\ CanMisnestedFormattingRecovery(B, MatchedIndex)

\* C36: a formatting end tag handled by misnested recovery loses no content:
\* every node reachable from the root before the end tag is reachable
\* afterwards, the pivot follows the formatting element, as its next sibling
\* or inside the clone of the formatting prefix that is its next sibling, and
\* the matched formatting element is no longer on the stack.
MisnestedRecoveryKeepsContent ==
  [][MisnestedStep =>
       LET formatting == At(stack, MatchedIndex)
           pivot == MisnestedPivot(B, MatchedIndex)
           parent == nodes[formatting].parent
       IN /\ \A n \in Reachable : n \in Reachable'
          /\ nodes'[formatting].parent = parent
          /\ \/ NextSiblingAfter(pivot, parent, formatting)
             \/ \E c \in (Len(nodes) + 1)..Len(nodes') :
                  /\ NextSiblingAfter(c, parent, formatting)
                  /\ nodes'[c].name \in FORMATTING_TAGS
                  /\ pivot \in SubtreeAfter({c})
          /\ \A i \in 1..Len(stack') : stack'[i] # formatting]_vars

\* misnested recovery has moved a div into the clone of the i that was open
\* between the b and the div
MisnestedRecoveryKeepsContentWitness ==
  /\ pc = "building"
  /\ lastToken.kind = "end_tag" /\ lastToken.name = "b"
  /\ \E f \in NodeIds, c \in NodeIds, d \in NodeIds :
       /\ nodes[f].name = "b" /\ nodes[c].name = "i" /\ nodes[d].name = "div"
       /\ nodes[c].parent = nodes[f].parent
       /\ nodes[d].parent = c
       /\ \E a \in NodeIds : nodes[a].name = "i" /\ nodes[a].parent = f
       /\ \E i \in 1..Len(stack) : stack[i] = d
       /\ \A i \in 1..Len(stack) : stack[i] # f


\* C37: after every token, every element on the open-elements stack is
\* attached to the output tree: it is reachable from the root through
\* children.
StackIsAttached ==
  \A i \in 1..Len(stack) : stack[i] \in Reachable


\* a frameset has taken the place of a body that was on the stack
StackIsAttachedWitness ==
  /\ pc = "building" /\ DocumentMode
  /\ lastToken.kind = "start_tag" /\ lastToken.name = "frameset"
  /\ nodes[stack[Len(stack)]].name = "frameset"
  /\ \E i \in 1..Len(stream.tokens) :
       stream.tokens[i].kind = "start_tag" /\ stream.tokens[i].name = "body"
  /\ \E n \in NodeIds : nodes[n].name = "body" /\ n \notin Reachable


\* the children of the html element that have the name
HtmlChildrenNamed(name) ==
  {n \in NodeIds : nodes[n].name = name /\ nodes[n].parent = documentElement}

\* C38: in document mode the html element never has both a frameset child and
\* a body child: once a frameset has been accepted, no later token creates a
\* body under html.
FramesetExcludesBody ==
  (DocumentMode /\ documentElement # NULL) =>
    (HtmlChildrenNamed("frameset") = {} \/ HtmlChildrenNamed("body") = {})


\* the positions on the stack of the elements named a
OpenAnchors == {i \in 1..Len(stack) : nodes[stack[i]].name = "a"}

\* C39: in document mode the open-elements stack never holds two elements
\* named a at the same time.
OneOpenAnchor ==
  DocumentMode => Cardinality(OpenAnchors) <= 1

\* the tokens have increasing positions
PositionsIncrease == \A k \in 1..(Len(tz.tokens) - 1) : tz.tokens[k].pos < tz.tokens[k + 1].pos

\* every token lies inside the input
PositionsInInput == \A k \in 1..Len(tz.tokens) : tz.tokens[k].pos >= 0 /\ tz.tokens[k].pos < Len(tz.html)

\* C40: the positions of the tokens emitted so far increase strictly, and each
\* of them is at least 0 and less than the length of the input
TokenPositionsIncrease == PositionsIncrease /\ PositionsInInput

====
